---------------------------- MODULE Spec2Model ----------------------------
(***************************************************************************)
(* A state-machine model of the imgui-react-runtime host                   *)
(* (lib/imgui-runtime): the bootstrap in sokol_main, the four native       *)
(* callbacks app_init / app_frame / app_event / app_cleanup, the config    *)
(* projection populate_sapp_desc_from_config, and the MappedFileBuffer     *)
(* constructor and destructor.                                             *)
(*                                                                         *)
(* The scripting side (the task-queue library behind peek/run, and the     *)
(* script's on_init / on_frame / on_event) is the environment: each entry  *)
(* into the VM may schedule macrotasks, queue microtasks, change the       *)
(* VM-side sappConfig, or throw.                                           *)
(***************************************************************************)
EXTENDS Integers, Sequences, FiniteSets, TLC

(***************************************************************************)
(* Bounds of the model.                                                    *)
(***************************************************************************)
\* the monotonic clock takes the values 0..MaxTime
MaxTime == 1
\* at most MaxTasks macrotasks are queued at once
MaxTasks == 2
\* the script schedules an already-due task during a drain loop only while
\* fewer than MaxRuns tasks have run in that tick
MaxRuns == 2
\* file sizes 0..MaxFileSize and page sizes 1..MaxPageSize
MaxFileSize == 12
MaxPageSize == 4
\* the most images load_image has registered when the session ends
MaxImages == 2
\* the last second the clock of the overlay statistics reaches
MaxFpsTime == 3
\* scaled width of size_t
SizeBits == 16
\* scaled width of int
IntBits == 16

\* due times of macrotasks
MaxDue == MaxTime

(***************************************************************************)
(* VM values, as far as the host inspects them.                            *)
(***************************************************************************)
JSUndefined == [t |-> "undefined"]
JSBool(b) == [t |-> "bool", b |-> b]
JSString(s) == [t |-> "string", s |-> s]
\* a number is NaN, +Infinity, -Infinity or finite; a finite number is kept
\* in halves (h = 2 * value), so that 2.5 is h = 5
JSNumber(k, h) == [t |-> "number", k |-> k, h |-> h]
JSFinite(h) == JSNumber("finite", h)
JSObject(props) == [t |-> "object", props |-> props]
\* the global has no such property
JSAbsent == [t |-> "absent"]

isNumber(v) == v.t = "number"
isBool(v) == v.t = "bool"
isString(v) == v.t = "string"
isObject(v) == v.t = "object"

\* Object::hasProperty on an object value
hasProperty(obj, name) == name \in DOMAIN obj.props
\* Object::getProperty on an object value
getProperty(obj, name) ==
  IF name \in DOMAIN obj.props THEN obj.props[name] ELSE JSUndefined

INT_MAX == 2^(IntBits - 1) - 1
INT_MIN == -(2^(IntBits - 1))

\* static_cast<int> of a finite in-range double: truncation toward zero
TruncHalves(h) == IF h >= 0 THEN h \div 2 ELSE -((-h) \div 2)

\* a conversion that casts without looking: a double that is not finite
\* gives INT_MIN, one out of range wraps around
unchecked_double_to_int(value, defaultValue) ==
  IF value.k # "finite" THEN INT_MIN
  ELSE ((TruncHalves(value.h) - INT_MIN) % (2^IntBits)) + INT_MIN

safe_double_to_int(value, defaultValue) ==
  IF value.k # "finite" THEN defaultValue
  ELSE IF value.h > 2 * INT_MAX THEN INT_MAX
  ELSE IF value.h < 2 * INT_MIN THEN INT_MIN
  ELSE TruncHalves(value.h)

DefaultTitle == "imgui-react-runtime"

\* sapp_desc s_app_desc{}: every field zero
ZeroDesc ==
  [init_cb |-> "null", frame_cb |-> "null", cleanup_cb |-> "null",
   event_cb |-> "null", window_title |-> "null",
   width |-> 0, height |-> 0, sample_count |-> 0, swap_interval |-> 0,
   clipboard_size |-> 0, max_dropped_files |-> 0,
   max_dropped_file_path_length |-> 0,
   fullscreen |-> FALSE, high_dpi |-> FALSE, alpha |-> FALSE,
   enable_clipboard |-> FALSE, enable_dragndrop |-> FALSE]

\* READ_INT_PROP
ReadIntProp(config, name, cur, defaultVal) ==
  IF hasProperty(config, name) /\ isNumber(getProperty(config, name))
  THEN safe_double_to_int(getProperty(config, name), defaultVal)
  ELSE cur

\* READ_BOOL_PROP
ReadBoolProp(config, name, cur) ==
  IF hasProperty(config, name) /\ isBool(getProperty(config, name))
  THEN getProperty(config, name).b
  ELSE cur

ReadTitle(config, cur) ==
  IF hasProperty(config, "title") /\ isString(getProperty(config, "title"))
  THEN getProperty(config, "title").s
  ELSE cur

\* the desc before globalThis.sappConfig is read
BaseDesc ==
  [ZeroDesc EXCEPT !.init_cb = "app_init", !.frame_cb = "app_frame",
                   !.cleanup_cb = "app_cleanup", !.event_cb = "app_event",
                   !.window_title = DefaultTitle]

\* whether populate_sapp_desc_from_config throws: getPropertyAsObject on a
\* sappConfig that is present and not an object
PopulateThrows(cfg) == cfg.t # "absent" /\ ~isObject(cfg)

\* the value populate_sapp_desc_from_config assigns to s_app_desc
PopulateDesc(cfg) ==
  IF cfg.t = "absent" THEN BaseDesc
  ELSE
    [BaseDesc EXCEPT
       !.window_title = ReadTitle(cfg, @),
       !.width = ReadIntProp(cfg, "width", @, 0),
       !.height = ReadIntProp(cfg, "height", @, 0),
       !.sample_count = ReadIntProp(cfg, "sample_count", @, 1),
       !.swap_interval = ReadIntProp(cfg, "swap_interval", @, 1),
       !.clipboard_size = ReadIntProp(cfg, "clipboard_size", @, 8192),
       !.max_dropped_files = ReadIntProp(cfg, "max_dropped_files", @, 1),
       !.max_dropped_file_path_length =
           ReadIntProp(cfg, "max_dropped_file_path_length", @, 2048),
       !.fullscreen = ReadBoolProp(cfg, "fullscreen", @),
       !.high_dpi = ReadBoolProp(cfg, "high_dpi", @),
       !.alpha = ReadBoolProp(cfg, "alpha", @),
       !.enable_clipboard = ReadBoolProp(cfg, "enable_clipboard", @),
       !.enable_dragndrop = ReadBoolProp(cfg, "enable_dragndrop", @)]

\* the sappConfig object sokol_main seeds
SeedConfig == JSObject([title |-> JSString(DefaultTitle)])

\* what the script may leave in globalThis.sappConfig
CustomConfig ==
  JSObject([title |-> JSString("custom app"), width |-> JSFinite(1601),
            fullscreen |-> JSBool(TRUE), high_dpi |-> JSFinite(2)])


(***************************************************************************)
(* MappedFileBuffer: sizes.                                                *)
(***************************************************************************)
\* size_t arithmetic
SizeT(x) == x % (2^SizeBits)

\* a rounding that gives an empty file one whole page
MappedSizeAtLeastOnePage(fileSize, pageSize) ==
  IF fileSize = 0
  THEN pageSize
  ELSE SizeT((SizeT(fileSize + pageSize - 1) \div pageSize) * pageSize)

\* mappedSize_ = ((fileSize_ + pageSize - 1) / pageSize) * pageSize
MappedSize(fileSize, pageSize) ==
  SizeT((SizeT(fileSize + pageSize - 1) \div pageSize) * pageSize)

\* the size with the terminator counted whenever it is asked for
ReportedSizeAlwaysPlusOne(fileSize, pageSize, attemptTrailingZero) ==
  IF attemptTrailingZero THEN SizeT(fileSize + 1) ELSE fileSize

\* size_: the size reported by size()
ReportedSize(fileSize, pageSize, attemptTrailingZero) ==
  IF attemptTrailingZero /\ fileSize % pageSize # 0
  THEN SizeT(fileSize + 1)
  ELSE fileSize

(***************************************************************************)
(* State.                                                                  *)
(***************************************************************************)
VARIABLES
  phase,          \* "Boot", "Running", "Terminated", "Exited", "Aborted"
  cb,             \* the native entry point running: "main", "init", "frame",
                  \* "event", "cleanup", or "none" between callbacks
  pc,             \* the position inside it
  trace,          \* the calls made by the entry point running, in order
  helpers,        \* the object the jslib unit evaluated to
  s_hermesApp,    \* "null" or the HermesApp (its two function handles)
  shDone,         \* number of calls of _sh_done
  exitStatus,     \* status passed to exit(), -1 while the process lives
  sappConfig,     \* globalThis.sappConfig
  s_app_desc,     \* the native window configuration
  projections,    \* number of times s_app_desc was assigned by the projection
  windowCreated,  \* sokol_main returned a desc and the window exists
  tasks,          \* the macrotask queue, sorted by due time
  micro,          \* whether microtasks are pending
  now,            \* the monotonic clock (ms)
  s_started, s_start_time,
  curTimeMs, nextTimeMs,
  ev,             \* the event app_event is handling
  onInitCalls,    \* number of invocations of on_init
  \* one MappedFileBuffer
  m_pc, m_in, fd_, data_, fileSize_, mappedSize_, size_, m_err, m_sys,
  \* one call of imgui_load_unit: its position, its arguments with the
  \* files they name, and the calls it has made
  l_pc, l_in, l_log,
  \* the statistics of the overlay
  s_last_fps_time, s_fps,
  s_react_avg_ms, s_react_max_ms, s_imgui_avg_ms,
  s_react_avg_ms_display, s_react_max_ms_display, s_imgui_avg_ms_display

sessionVars ==
  <<phase, cb, pc, trace, helpers, s_hermesApp, shDone, exitStatus, sappConfig, s_app_desc, projections, windowCreated, tasks, micro, now,
    s_started, s_start_time, curTimeMs, nextTimeMs, ev, onInitCalls>>

mapVars ==
  <<m_pc, m_in, fd_, data_, fileSize_, mappedSize_, size_, m_err, m_sys>>

loadVars == <<l_pc, l_in, l_log>>

fpsVars ==
  <<s_last_fps_time, s_fps, s_react_avg_ms, s_react_max_ms, s_imgui_avg_ms,
    s_react_avg_ms_display, s_react_max_ms_display, s_imgui_avg_ms_display>>

\* the variables no step of the session writes
auxVars == <<mapVars, loadVars, fpsVars>>

vars == <<sessionVars, mapVars, loadVars, fpsVars>>

NoEvent == [type |-> "NONE", key_code |-> "NONE", modifiers |-> {}]
NoHelpers == [peek |-> "undefined", run |-> "undefined"]
NoApp == [alive |-> FALSE, peekMacroTask |-> "none", runMacroTask |-> "none"]

\* one entry of trace: the call, a number that goes in or comes out of it,
\* whether the task it runs was scheduled by this entry point, its event
Call(op, v, fresh) == [op |-> op, v |-> v, fresh |-> fresh, arg |-> NoEvent]
CallEv(op, e) == [op |-> op, v |-> -1, fresh |-> FALSE, arg |-> e]
Did(op) == Call(op, -1, FALSE)
Ops(tr) == [i \in 1..Len(tr) |-> tr[i].op]
Count(tr, op) == Cardinality({i \in 1..Len(tr) : tr[i].op = op})
Has(tr, op) == \E i \in 1..Len(tr) : tr[i].op = op
SessionInit ==
  /\ phase = "Boot" /\ cb = "main" /\ pc = "b_jslib" /\ trace = <<>>
  /\ helpers = NoHelpers /\ s_hermesApp = NoApp /\ shDone = 0
  /\ exitStatus = -1 /\ sappConfig = JSAbsent
  /\ s_app_desc = ZeroDesc /\ projections = 0 /\ windowCreated = FALSE
  /\ tasks = <<>> /\ micro = FALSE /\ now = 0
  /\ s_started = FALSE /\ s_start_time = 0
  /\ curTimeMs = 0 /\ nextTimeMs = -1
  /\ ev = NoEvent
  /\ onInitCalls = 0

NoMapInput == [exists |-> FALSE, size |-> 0, pageSize |-> 1, zero |-> FALSE]

MapIdle ==
  /\ m_pc = "none" /\ m_in = NoMapInput /\ fd_ = -1 /\ data_ = "nullptr"
  /\ fileSize_ = 0 /\ mappedSize_ = 0 /\ size_ = 0 /\ m_err = "none"
  /\ m_sys = <<>>

NoLoadInput ==
  [nativeUnit |-> FALSE, bytecode |-> FALSE, jsPath |-> "", sourceURL |-> "",
   nativeThrows |-> FALSE, evalThrows |-> FALSE]

LoadIdle == l_pc = "none" /\ l_in = NoLoadInput /\ l_log = <<>>

\* the statics of lines 102-112
FpsInit ==
  /\ s_last_fps_time = 0 /\ s_fps = 0
  /\ s_react_avg_ms = 0 /\ s_react_max_ms = 0 /\ s_imgui_avg_ms = 0
  /\ s_react_avg_ms_display = 0 /\ s_react_max_ms_display = 0
  /\ s_imgui_avg_ms_display = 0

Init ==
  /\ SessionInit
  /\ MapIdle
  /\ LoadIdle
  /\ FpsInit

(***************************************************************************)
(* MappedFileBuffer: the constructor, step by step, and the destructor.    *)
(* m_in is the file behind the path (whether open() finds it, its size),   *)
(* the page size sysconf reports, and the attemptTrailingZero argument.    *)
(***************************************************************************)
ValidFd == 3

MapInputs ==
  [exists : BOOLEAN, size : 0..MaxFileSize, pageSize : 1..MaxPageSize,
   zero : BOOLEAN]

\* fd_ = open(path, O_RDONLY); a failure throws
MapOpen ==
  /\ m_pc = "open"
  /\ IF m_in.exists
     THEN /\ fd_' = ValidFd
          /\ m_sys' = Append(m_sys, "open")
          /\ m_pc' = "fstat"
          /\ m_err' = m_err
     ELSE /\ fd_' = -1
          /\ m_sys' = m_sys
          /\ m_pc' = "thrown"
          /\ m_err' = "Failed to open"
  /\ UNCHANGED <<m_in, data_, fileSize_, mappedSize_, size_>>
  /\ UNCHANGED <<sessionVars, loadVars, fpsVars>>

\* fstat, then the three sizes; a failing fstat closes fd_ and throws
MapFstat ==
  /\ m_pc = "fstat"
  /\ \E statOk \in BOOLEAN :
       IF statOk
       THEN /\ fileSize_' = m_in.size
            /\ mappedSize_' = MappedSize(m_in.size, m_in.pageSize)
            /\ size_' = ReportedSize(m_in.size, m_in.pageSize, m_in.zero)
            /\ m_pc' = "mmap"
            /\ UNCHANGED <<m_err, m_sys>>
       ELSE /\ m_sys' = Append(m_sys, "close")
            /\ m_pc' = "thrown"
            /\ m_err' = "Failed to stat"
            /\ UNCHANGED <<fileSize_, mappedSize_, size_>>
  /\ UNCHANGED <<m_in, fd_, data_>>
  /\ UNCHANGED <<sessionVars, loadVars, fpsVars>>

\* mmap refuses a length of zero (EINVAL) and may fail for other reasons
MmapResults(len) == IF len = 0 THEN {"MAP_FAILED"} ELSE {"addr", "MAP_FAILED"}

\* a failing mmap that throws with the descriptor still open
MapMmapLeaksFd ==
  /\ m_pc = "mmap"
  /\ \E r \in MmapResults(mappedSize_) :
       /\ data_' = r
       /\ IF r = "MAP_FAILED"
          THEN /\ m_sys' = m_sys
               /\ m_pc' = "thrown"
               /\ m_err' = "Failed to mmap"
          ELSE /\ m_sys' = Append(m_sys, "mmap")
               /\ m_pc' = "live"
               /\ m_err' = m_err
  /\ UNCHANGED <<m_in, fd_, fileSize_, mappedSize_, size_>>
  /\ UNCHANGED <<sessionVars, loadVars, fpsVars>>

\* data_ = mmap(nullptr, mappedSize_, ...); a failure closes fd_ and throws
MapMmap ==
  /\ m_pc = "mmap"
  /\ \E r \in MmapResults(mappedSize_) :
       /\ data_' = r
       /\ IF r = "MAP_FAILED"
          THEN /\ m_sys' = Append(m_sys, "close")
               /\ m_pc' = "thrown"
               /\ m_err' = "Failed to mmap"
          ELSE /\ m_sys' = Append(m_sys, "mmap")
               /\ m_pc' = "live"
               /\ m_err' = m_err
  /\ UNCHANGED <<m_in, fd_, fileSize_, mappedSize_, size_>>
  /\ UNCHANGED <<sessionVars, loadVars, fpsVars>>

\* ~MappedFileBuffer, run on a constructed buffer only
MapDestroy ==
  /\ m_pc = "live"
  /\ m_sys' = m_sys
              \o (IF data_ # "MAP_FAILED" THEN <<"munmap">> ELSE <<>>)
              \o (IF fd_ >= 0 THEN <<"close">> ELSE <<>>)
  /\ m_pc' = "destroyed"
  /\ UNCHANGED <<m_in, fd_, data_, fileSize_, mappedSize_, size_, m_err>>
  /\ UNCHANGED <<sessionVars, loadVars, fpsVars>>

InitMap ==
  /\ SessionInit
  /\ m_pc = "open" /\ m_in \in MapInputs /\ fd_ = -1 /\ data_ = "nullptr"
  /\ fileSize_ = 0 /\ mappedSize_ = 0 /\ size_ = 0 /\ m_err = "none"
  /\ m_sys = <<>>
  /\ LoadIdle
  /\ FpsInit

NextMap == MapOpen \/ MapFstat \/ MapMmap \/ MapDestroy

SpecMap == InitMap /\ [][NextMap]_vars

(***************************************************************************)
(* mapFileBuffer as one call: the constructor above run to its end.        *)
(* file is what the path names: [exists, statOk, mmapOk, size, pageSize].  *)
(***************************************************************************)
MapFileBuffer(file, attemptTrailingZero) ==
  IF ~file.exists
  THEN [ok |-> FALSE, err |-> "Failed to open", size |-> 0]
  ELSE IF ~file.statOk
  THEN [ok |-> FALSE, err |-> "Failed to stat", size |-> 0]
  ELSE IF ~file.mmapOk
          \/ "addr" \notin MmapResults(MappedSize(file.size, file.pageSize))
  THEN [ok |-> FALSE, err |-> "Failed to mmap", size |-> 0]
  ELSE [ok |-> TRUE, err |-> "none",
        size |-> ReportedSize(file.size, file.pageSize, attemptTrailingZero)]

(***************************************************************************)
(* imgui_load_unit, as the sequence of calls it makes.  A loader entry is  *)
(* [op, path, zero, size, name]; the last entry is "throw" when the call   *)
(* ends by an exception leaving imgui_load_unit.                           *)
(*   nativeUnit : BOOLEAN (a unit creator is supplied)                     *)
(*   jsPath, sourceURL : a string, or "" for a null pointer                *)
(*   files : what jsPath and jsPath + ".map" name                          *)
(*   evalThrows : whether an evaluation throws                             *)
(***************************************************************************)
LoadEntry(op, path, zero, size, name) ==
  [op |-> op, path |-> path, zero |-> zero, size |-> size, name |-> name]
LoadThrow == LoadEntry("throw", "", FALSE, -1, "")
MapEntry(path, zero, r) ==
  LoadEntry(IF r.ok THEN "mapFileBuffer" ELSE "mapFileBuffer:failed",
            path, zero, r.size, r.err)

\* a loader that lets a failure to map the source map escape
LoadFromFileMapRequired(bytecode, jsPath, sourceURL, files, evalThrows) ==
  LET name == IF sourceURL # "" THEN sourceURL ELSE jsPath
      tail == IF evalThrows THEN <<LoadThrow>> ELSE <<>>
  IN
  IF jsPath # "" /\ bytecode
  THEN LET buffer == MapFileBuffer(files.script, FALSE) IN
       IF ~buffer.ok
       THEN <<MapEntry(jsPath, FALSE, buffer), LoadThrow>>
       ELSE <<MapEntry(jsPath, FALSE, buffer),
              LoadEntry("evaluateJavaScript", jsPath, FALSE, buffer.size,
                        name)>> \o tail
  ELSE IF jsPath # "" /\ ~bytecode
  THEN LET buffer == MapFileBuffer(files.script, TRUE)
           sourceMapBuf == MapFileBuffer(files.map, TRUE)
       IN
       IF ~buffer.ok
       THEN <<MapEntry(jsPath, TRUE, buffer), LoadThrow>>
       ELSE IF ~sourceMapBuf.ok
       THEN <<MapEntry(jsPath, TRUE, buffer),
              MapEntry(jsPath \o ".map", TRUE, sourceMapBuf), LoadThrow>>
       ELSE <<MapEntry(jsPath, TRUE, buffer),
              MapEntry(jsPath \o ".map", TRUE, sourceMapBuf),
              LoadEntry(IF sourceMapBuf.ok
                        THEN "evaluateJavaScriptWithSourceMap"
                        ELSE "evaluateJavaScript",
                        jsPath, TRUE, buffer.size, name)>> \o tail
  ELSE <<>>

\* a loader that asks for the terminator in bytecode mode too
LoadFromFileAlwaysZero(bytecode, jsPath, sourceURL, files, evalThrows) ==
  LET name == IF sourceURL # "" THEN sourceURL ELSE jsPath
      tail == IF evalThrows THEN <<LoadThrow>> ELSE <<>>
  IN
  IF jsPath # "" /\ bytecode
  THEN LET buffer == MapFileBuffer(files.script, TRUE) IN
       IF ~buffer.ok
       THEN <<MapEntry(jsPath, TRUE, buffer), LoadThrow>>
       ELSE <<MapEntry(jsPath, TRUE, buffer),
              LoadEntry("evaluateJavaScript", jsPath, TRUE, buffer.size,
                        name)>> \o tail
  ELSE IF jsPath # "" /\ ~bytecode
  THEN LET buffer == MapFileBuffer(files.script, TRUE)
           sourceMapBuf == MapFileBuffer(files.map, TRUE)
       IN
       IF ~buffer.ok
       THEN <<MapEntry(jsPath, TRUE, buffer), LoadThrow>>
       ELSE <<MapEntry(jsPath, TRUE, buffer),
              MapEntry(jsPath \o ".map", TRUE, sourceMapBuf),
              LoadEntry(IF sourceMapBuf.ok
                        THEN "evaluateJavaScriptWithSourceMap"
                        ELSE "evaluateJavaScript",
                        jsPath, TRUE, buffer.size, name)>> \o tail
  ELSE <<>>

\* the two file modes of imgui_load_unit (lines 499-530)
LoadFromFile(bytecode, jsPath, sourceURL, files, evalThrows) ==
  LET name == IF sourceURL # "" THEN sourceURL ELSE jsPath
      tail == IF evalThrows THEN <<LoadThrow>> ELSE <<>>
  IN
  IF jsPath # "" /\ bytecode
  THEN LET buffer == MapFileBuffer(files.script, FALSE) IN
       IF ~buffer.ok
       THEN <<MapEntry(jsPath, FALSE, buffer), LoadThrow>>
       ELSE <<MapEntry(jsPath, FALSE, buffer),
              LoadEntry("evaluateJavaScript", jsPath, FALSE, buffer.size,
                        name)>> \o tail
  ELSE IF jsPath # "" /\ ~bytecode
  THEN LET buffer == MapFileBuffer(files.script, TRUE)
           sourceMapBuf == MapFileBuffer(files.map, TRUE)
       IN
       IF ~buffer.ok
       THEN <<MapEntry(jsPath, TRUE, buffer), LoadThrow>>
       ELSE <<MapEntry(jsPath, TRUE, buffer),
              MapEntry(jsPath \o ".map", TRUE, sourceMapBuf),
              LoadEntry(IF sourceMapBuf.ok
                        THEN "evaluateJavaScriptWithSourceMap"
                        ELSE "evaluateJavaScript",
                        jsPath, TRUE, buffer.size, name)>> \o tail
  ELSE <<>>

imgui_load_unit(nativeUnit, bytecode, jsPath, sourceURL, files, nativeThrows, evalThrows) ==
  IF nativeUnit /\ nativeThrows
  THEN <<LoadEntry("evaluateSHUnit", "", FALSE, -1, "react"), LoadThrow>>
  ELSE (IF nativeUnit
        THEN <<LoadEntry("evaluateSHUnit", "", FALSE, -1, "react")>>
        ELSE <<>>)
       \o LoadFromFile(bytecode, jsPath, sourceURL, files, evalThrows)

\* REACT_BUNDLE_PATH
BundlePath == "react-unit-bundle"

\* imgui_main_default<BUNDLE_MODE>
imgui_main_default(mode, files, nativeThrows, evalThrows) ==
  IF mode = 0
  THEN imgui_load_unit(TRUE, FALSE, "", "", files, nativeThrows, evalThrows)
  ELSE IF mode = 1
  THEN imgui_load_unit(FALSE, TRUE, BundlePath, "react-unit-bundle.hbc",
                       files, nativeThrows, evalThrows)
  ELSE IF mode = 2
  THEN imgui_load_unit(FALSE, FALSE, BundlePath, "react-unit-bundle.js",
                       files, nativeThrows, evalThrows)
  ELSE <<>>

Threw(log) == Len(log) > 0 /\ log[Len(log)].op = "throw"
\* some script was evaluated by the calls of log
Evaluated(log) ==
  \E i \in 1..Len(log) :
    log[i].op \in {"evaluateSHUnit", "evaluateJavaScript",
                   "evaluateJavaScriptWithSourceMap"}

\* the files a bootstrap may meet
File(exists, statOk, mmapOk, size, pageSize) ==
  [exists |-> exists, statOk |-> statOk, mmapOk |-> mmapOk, size |-> size,
   pageSize |-> pageSize]
FileChoices ==
  {File(FALSE, TRUE, TRUE, 0, 4), File(TRUE, FALSE, TRUE, 3, 4),
   File(TRUE, TRUE, FALSE, 3, 4), File(TRUE, TRUE, TRUE, 3, 4),
   File(TRUE, TRUE, TRUE, 0, 4), File(TRUE, TRUE, TRUE, 8, 4)}

(***************************************************************************)
(* One call of imgui_load_unit on every combination of its arguments: a    *)
(* user-provided imgui_main may pass any.                                   *)
(***************************************************************************)
LoadInputs ==
  [nativeUnit : BOOLEAN, bytecode : BOOLEAN, jsPath : {"", BundlePath},
   sourceURL : {"", "bundle-url"}, script : FileChoices, map : FileChoices,
   nativeThrows : BOOLEAN, evalThrows : BOOLEAN]

InitLoad ==
  /\ SessionInit
  /\ MapIdle
  /\ FpsInit
  /\ l_pc = "call" /\ l_in \in LoadInputs /\ l_log = <<>>

\* the call, from entry to its return or to the exception that leaves it
LoadUnit ==
  /\ l_pc = "call"
  /\ l_log' = imgui_load_unit(l_in.nativeUnit, l_in.bytecode, l_in.jsPath,
                              l_in.sourceURL,
                              [script |-> l_in.script, map |-> l_in.map],
                              l_in.nativeThrows, l_in.evalThrows)
  /\ l_pc' = IF Threw(l_log') THEN "thrown" ELSE "returned"
  /\ UNCHANGED l_in
  /\ UNCHANGED <<sessionVars, mapVars, fpsVars>>

NextLoad == LoadUnit

SpecLoad == InitLoad /\ [][NextLoad]_vars

(***************************************************************************)
(* The scripting environment.                                              *)
(***************************************************************************)
\* the queue with task t inserted behind every task due no later
InsertTask(q, t) ==
  LET k == Cardinality({i \in 1..Len(q) : q[i].due <= t.due})
  IN SubSeq(q, 1, k) \o <<t>> \o SubSeq(q, k + 1, Len(q))

\* the queue once the native entry point has returned
Settled(q) == [i \in 1..Len(q) |-> [q[i] EXCEPT !.fresh = FALSE]]

\* what a piece of script may leave behind: at most one more macrotask with
\* a due time in dues, more microtasks, a sappConfig of cfgs
SchedChoices(q, dues) ==
  {q} \cup (IF Len(q) < MaxTasks
            THEN {InsertTask(q, [due |-> d, fresh |-> TRUE]) : d \in dues}
            ELSE {})
ScriptEffects(q, dues, cfgs) ==
  [tasks : SchedChoices(q, dues), micro : {micro, TRUE}, cfg : cfgs]
\* a unit being evaluated may leave sappConfig as seeded, fill it in, or
\* replace it by something that is no object
UnitConfigs == {sappConfig, CustomConfig, JSFinite(10)}
\* the frame handler may fill in sappConfig; the other handlers and the
\* macrotasks leave it alone
HandlerConfigs == {sappConfig, CustomConfig}
TaskConfigs == {sappConfig}
\* a microtask drain runs jobs only: they may schedule macrotasks
JobEffects(q, dues) == SchedChoices(q, dues)

\* peek of the task-queue library: the due time of the head, -1 when empty
Peek(q) == IF q = <<>> THEN -1 ELSE q[1].due

(***************************************************************************)
(* sokol_main: the bootstrap.                                              *)
(***************************************************************************)
BootDid(op) == LoadEntry(op, "", FALSE, -1, "")
BootThrow(thr) == IF thr THEN <<LoadThrow>> ELSE <<>>
\* what a lookup in the VM may find under a name
PropertyKinds == {"function", "undefined"}

\* Object::getPropertyAsFunction throws unless the property is a function
GetPropertyAsFunctionThrows(kind) == kind # "function"

\* hermes->evaluateSHUnit(sh_export_jslib).asObject(*hermes)
BootJslib ==
  /\ phase = "Boot" /\ pc = "b_jslib"
  /\ \E thr \in BOOLEAN, pk \in PropertyKinds, rn \in PropertyKinds :
       /\ trace' = Append(trace, BootDid("evaluateSHUnit:jslib"))
                   \o BootThrow(thr)
       /\ IF thr
          THEN pc' = "b_catch" /\ helpers' = helpers
          ELSE pc' = "b_env" /\ helpers' = [peek |-> pk, run |-> rn]
  /\ UNCHANGED <<phase, cb, s_hermesApp, shDone, exitStatus, sappConfig, s_app_desc, projections, windowCreated, tasks,
                 micro, now, s_started, s_start_time, curTimeMs, nextTimeMs,
                 ev, onInitCalls>>
  /\ UNCHANGED auxVars

\* process.env.NODE_ENV = nodeEnv; throws when the jslib unit left no
\* process.env object
BootEnv ==
  /\ phase = "Boot" /\ pc = "b_env"
  /\ \E thr \in BOOLEAN :
       /\ trace' = Append(trace, BootDid("set NODE_ENV")) \o BootThrow(thr)
       /\ pc' = IF thr THEN "b_catch" ELSE "b_newapp"
  /\ UNCHANGED <<phase, cb, helpers, s_hermesApp, shDone, exitStatus,
                 sappConfig, s_app_desc, projections, windowCreated,
                 tasks, micro, now, s_started, s_start_time, curTimeMs,
                 nextTimeMs, ev, onInitCalls>>
  /\ UNCHANGED auxVars

\* the HermesApp built from whatever the two properties hold
BootNewAppUnchecked ==
  /\ phase = "Boot" /\ pc = "b_newapp"
  /\ pc' = "b_run0"
  /\ trace' = Append(trace, BootDid("new HermesApp"))
  /\ s_hermesApp' = [alive |-> TRUE, peekMacroTask |-> helpers.peek,
                     runMacroTask |-> helpers.run]
  /\ UNCHANGED <<phase, cb, helpers, shDone, exitStatus, sappConfig,
                 s_app_desc, projections, windowCreated, tasks, micro, now,
                 s_started, s_start_time, curTimeMs, nextTimeMs, ev,
                 onInitCalls>>
  /\ UNCHANGED auxVars

\* s_hermesApp = new HermesApp(shr, getPropertyAsFunction("peek"),
\*                             getPropertyAsFunction("run"))
BootNewApp ==
  /\ phase = "Boot" /\ pc = "b_newapp"
  /\ IF GetPropertyAsFunctionThrows(helpers.peek)
        \/ GetPropertyAsFunctionThrows(helpers.run)
     THEN /\ pc' = "b_catch"
          /\ trace' = trace \o BootThrow(TRUE)
          /\ s_hermesApp' = s_hermesApp
     ELSE /\ pc' = "b_run0"
          /\ trace' = Append(trace, BootDid("new HermesApp"))
          /\ s_hermesApp' = [alive |-> TRUE, peekMacroTask |-> helpers.peek,
                             runMacroTask |-> helpers.run]
  /\ UNCHANGED <<phase, cb, helpers, shDone, exitStatus, sappConfig,
                 s_app_desc, projections, windowCreated, tasks, micro, now,
                 s_started, s_start_time, curTimeMs, nextTimeMs, ev,
                 onInitCalls>>
  /\ UNCHANGED auxVars

\* runMacroTask.call(curTimeMs): the queue is empty, so no task runs
BootRun0 ==
  /\ phase = "Boot" /\ pc = "b_run0"
  /\ \E thr \in BOOLEAN :
       /\ trace' = Append(trace, BootDid("run")) \o BootThrow(thr)
       /\ pc' = IF thr THEN "b_catch" ELSE "b_seed"
  /\ UNCHANGED <<phase, cb, helpers, s_hermesApp, shDone, exitStatus,
                 sappConfig, s_app_desc, projections, windowCreated,
                 tasks, micro, now, s_started, s_start_time, curTimeMs,
                 nextTimeMs, ev, onInitCalls>>
  /\ UNCHANGED auxVars

\* globalThis.performance, then globalThis.sappConfig = {title: ...}
BootSeed ==
  /\ phase = "Boot" /\ pc = "b_seed"
  /\ trace' = trace \o <<BootDid("set performance"), BootDid("set sappConfig")>>
  /\ sappConfig' = SeedConfig
  /\ pc' = "b_main"
  /\ UNCHANGED <<phase, cb, helpers, s_hermesApp, shDone, exitStatus,
                 s_app_desc, projections, windowCreated, tasks,
                 micro, now, s_started, s_start_time, curTimeMs, nextTimeMs,
                 ev, onInitCalls>>
  /\ UNCHANGED auxVars

\* imgui_main(argc, argv, hermes): the application unit is loaded in the
\* mode the build selected; the script evaluated may reschedule and may
\* replace sappConfig, also when it ends by throwing
BootMain ==
  /\ phase = "Boot" /\ pc = "b_main"
  /\ \E mode \in 0..3, script \in FileChoices, map \in FileChoices,
        nativeThrows \in BOOLEAN, evalThrows \in BOOLEAN :
       LET log == imgui_main_default(mode, [script |-> script, map |-> map],
                                     nativeThrows, evalThrows)
       IN /\ trace' = trace \o log
          /\ pc' = IF Threw(log) THEN "b_catch" ELSE "b_imgui"
          /\ IF Evaluated(log)
             THEN \E e \in ScriptEffects(tasks, 0..MaxDue, UnitConfigs) :
                    /\ tasks' = e.tasks
                    /\ micro' = e.micro
                    /\ sappConfig' = e.cfg
             ELSE UNCHANGED <<tasks, micro, sappConfig>>
  /\ UNCHANGED <<phase, cb, helpers, s_hermesApp, shDone, exitStatus,
                 s_app_desc, projections, windowCreated, now,
                 s_started, s_start_time, curTimeMs, nextTimeMs, ev,
                 onInitCalls>>
  /\ UNCHANGED auxVars

\* a bootstrap that drains the microtasks after the last unit
BootImguiDrains ==
  /\ phase = "Boot" /\ pc = "b_imgui"
  /\ \E thr \in BOOLEAN, e \in ScriptEffects(tasks, 0..MaxDue, UnitConfigs) :
       /\ trace' = Append(trace, BootDid("evaluateSHUnit:imgui"))
                   \o (IF thr THEN BootThrow(TRUE)
                       ELSE <<BootDid("drainMicrotasks")>>)
       /\ pc' = IF thr THEN "b_catch" ELSE "b_populate"
       /\ tasks' = e.tasks
       /\ micro' = IF thr THEN e.micro ELSE FALSE
       /\ sappConfig' = e.cfg
  /\ UNCHANGED <<phase, cb, helpers, s_hermesApp, shDone, exitStatus,
                 s_app_desc, projections, windowCreated, now, s_started,
                 s_start_time, curTimeMs, nextTimeMs, ev, onInitCalls>>
  /\ UNCHANGED auxVars

\* hermes->evaluateSHUnit(sh_export_imgui)
BootImgui ==
  /\ phase = "Boot" /\ pc = "b_imgui"
  /\ \E thr \in BOOLEAN, e \in ScriptEffects(tasks, 0..MaxDue, UnitConfigs) :
       /\ trace' = Append(trace, BootDid("evaluateSHUnit:imgui"))
                   \o BootThrow(thr)
       /\ pc' = IF thr THEN "b_catch" ELSE "b_populate"
       /\ tasks' = e.tasks
       /\ micro' = e.micro
       /\ sappConfig' = e.cfg
  /\ UNCHANGED <<phase, cb, helpers, s_hermesApp, shDone, exitStatus,
                 s_app_desc, projections, windowCreated, now, s_started,
                 s_start_time, curTimeMs, nextTimeMs, ev, onInitCalls>>
  /\ UNCHANGED auxVars

\* populate_sapp_desc_from_config(hermes)
BootPopulate ==
  /\ phase = "Boot" /\ pc = "b_populate"
  /\ IF PopulateThrows(sappConfig)
     THEN /\ pc' = "b_catch"
          /\ trace' = Append(trace, BootDid("populate")) \o BootThrow(TRUE)
          /\ UNCHANGED <<s_app_desc, projections>>
     ELSE /\ s_app_desc' = PopulateDesc(sappConfig)
          /\ projections' = projections + 1
          /\ pc' = "b_return"
          /\ trace' = Append(trace, BootDid("populate"))
  /\ UNCHANGED <<phase, cb, helpers, s_hermesApp, shDone, exitStatus,
                 windowCreated, sappConfig, tasks, micro, now, s_started,
                 s_start_time, curTimeMs, nextTimeMs, ev, onInitCalls>>
  /\ UNCHANGED auxVars

\* if (!s_app_desc.init_cb) throw; return s_app_desc: sokol creates the
\* window from the desc and calls init_cb next
BootReturn ==
  /\ phase = "Boot" /\ pc = "b_return"
  /\ IF s_app_desc.init_cb = "null"
     THEN /\ pc' = "b_catch"
          /\ trace' = trace \o BootThrow(TRUE)
          /\ UNCHANGED <<phase, cb, windowCreated, tasks>>
     ELSE /\ windowCreated' = TRUE
          /\ phase' = "Running"
          /\ cb' = "none"
          /\ pc' = "init"
          /\ trace' = <<>>
          /\ tasks' = Settled(tasks)
  /\ UNCHANGED <<helpers, s_hermesApp, shDone, exitStatus, s_app_desc,
                 projections, sappConfig, micro, now, s_started,
                 s_start_time, curTimeMs, nextTimeMs, ev, onInitCalls>>
  /\ UNCHANGED auxVars

\* a catch path that also deletes the HermesApp it finds, whose shRuntime
\* member calls _sh_done a second time
BootCatchDeletesApp ==
  /\ phase = "Boot" /\ pc = "b_catch"
  /\ trace' = trace \o <<BootDid("printf"), BootDid("_sh_done"), BootDid("exit")>>
  /\ shDone' = IF s_hermesApp = NoApp THEN shDone + 1 ELSE shDone + 2
  /\ exitStatus' = 1
  /\ phase' = "Exited"
  /\ pc' = "exited"
  /\ UNCHANGED <<cb, helpers, s_hermesApp, sappConfig, s_app_desc,
                 projections, windowCreated, tasks, micro, now, s_started,
                 s_start_time, curTimeMs, nextTimeMs, ev, onInitCalls>>
  /\ UNCHANGED auxVars

\* the catch clauses, then _sh_done(shr); exit(1)
BootCatch ==
  /\ phase = "Boot" /\ pc = "b_catch"
  /\ trace' = trace \o <<BootDid("printf"), BootDid("_sh_done"), BootDid("exit")>>
  /\ shDone' = shDone + 1
  /\ exitStatus' = 1
  /\ phase' = "Exited"
  /\ pc' = "exited"
  /\ UNCHANGED <<cb, helpers, s_hermesApp, sappConfig, s_app_desc,
                 projections, windowCreated, tasks, micro, now, s_started,
                 s_start_time, curTimeMs, nextTimeMs, ev, onInitCalls>>
  /\ UNCHANGED auxVars

Boot ==
  \/ BootJslib \/ BootEnv \/ BootNewApp \/ BootRun0 \/ BootSeed
  \/ BootMain \/ BootImgui \/ BootPopulate \/ BootReturn \/ BootCatch

(***************************************************************************)
(* The projection on every kind of value a script may leave in a field of  *)
(* sappConfig: sokol_main from populate_sapp_desc_from_config on, after    *)
(* the units have been evaluated.                                          *)
(***************************************************************************)
IntFields ==
  {"width", "height", "sample_count", "swap_interval", "clipboard_size",
   "max_dropped_files", "max_dropped_file_path_length"}
BoolFields ==
  {"fullscreen", "high_dpi", "alpha", "enable_clipboard", "enable_dragndrop"}

\* numbers: not finite, fractional, at and around the ends of int
NumberInputs ==
  {JSNumber("NaN", 0), JSNumber("+Infinity", 0), JSNumber("-Infinity", 0)}
  \cup {JSFinite(h) : h \in {0, 5, -5, 2 * INT_MAX, 2 * INT_MAX + 1,
                             2 * INT_MAX + 2, 4 * INT_MAX, 2 * INT_MIN,
                             2 * INT_MIN - 1, 2 * INT_MIN - 2, 4 * INT_MIN}}
FieldInputs ==
  NumberInputs \cup {JSBool(TRUE), JSBool(FALSE), JSString("1"), JSUndefined}

\* a sappConfig with one integer field and one boolean field filled in, and
\* a sappConfig that is no object
ConfigInputs ==
  {JSObject((f :> v) @@ (g :> w) @@ [title |-> JSString(DefaultTitle)]) :
     f \in IntFields, v \in FieldInputs, g \in BoolFields,
     w \in {JSBool(TRUE), JSFinite(2), JSString("true"), JSUndefined}}
  \cup {SeedConfig, JSFinite(10)}

InitCfg ==
  /\ phase = "Boot" /\ cb = "main" /\ pc = "b_populate"
  /\ trace = <<BootDid("evaluateSHUnit:jslib"), BootDid("set NODE_ENV"),
               BootDid("new HermesApp"), BootDid("run"),
               BootDid("set performance"), BootDid("set sappConfig"),
               BootDid("evaluateSHUnit:imgui")>>
  /\ helpers = [peek |-> "function", run |-> "function"]
  /\ s_hermesApp = [alive |-> TRUE, peekMacroTask |-> "function",
                    runMacroTask |-> "function"]
  /\ shDone = 0 /\ exitStatus = -1
  /\ sappConfig \in ConfigInputs
  /\ s_app_desc = ZeroDesc /\ projections = 0 /\ windowCreated = FALSE
  /\ tasks = <<>> /\ micro = FALSE /\ now = 0
  /\ s_started = FALSE /\ s_start_time = 0
  /\ curTimeMs = 0 /\ nextTimeMs = -1
  /\ ev = NoEvent /\ onInitCalls = 0
  /\ MapIdle /\ LoadIdle /\ FpsInit

NextCfg == BootPopulate \/ BootReturn \/ BootCatch

SpecCfg == InitCfg /\ [][NextCfg]_vars

(***************************************************************************)
(* Pieces shared by the native callbacks.                                  *)
(***************************************************************************)
\* variables no callback but app_cleanup writes
bootVars ==
  <<helpers, shDone, exitStatus, s_app_desc, projections,
    windowCreated>>

\* drainMicrotasks: runs jobs until the queue is empty; a job that throws
\* ends the drain and leaves the jobs behind it, if any, queued
DrainOutcomes(m) ==
  IF ~m THEN {[micro |-> FALSE, thr |-> FALSE]}
  ELSE {[micro |-> FALSE, thr |-> FALSE], [micro |-> FALSE, thr |-> TRUE],
        [micro |-> TRUE, thr |-> TRUE]}

Throw(thr) == IF thr THEN <<Did("throw")>> ELSE <<>>

(***************************************************************************)
(* app_init                                                                *)
(***************************************************************************)
\* sg_setup, simgui_setup, sg_make_sampler, sdtx_setup
InitSetup ==
  /\ phase = "Running" /\ pc = "init"
  /\ cb' = "init"
  /\ trace' = <<Did("sg_setup"), Did("simgui_setup"), Did("sg_make_sampler"),
                Did("sdtx_setup")>>
  /\ pc' = "i_call"
  /\ UNCHANGED <<phase, s_hermesApp, sappConfig, tasks, micro, now,
                 s_started, s_start_time, curTimeMs, nextTimeMs, ev,
                 onInitCalls>>
  /\ UNCHANGED bootVars /\ UNCHANGED auxVars

\* global().getPropertyAsFunction("on_init").call()
InitCall ==
  /\ phase = "Running" /\ pc = "i_call"
  /\ \E kind \in PropertyKinds :
     IF GetPropertyAsFunctionThrows(kind)
     THEN /\ trace' = Append(trace, Did("on_init:missing")) \o Throw(TRUE)
          /\ pc' = "i_catch"
          /\ UNCHANGED <<onInitCalls, tasks, micro, sappConfig>>
     ELSE \E thr \in BOOLEAN,
             e \in ScriptEffects(tasks, 0..MaxDue, TaskConfigs) :
            /\ trace' = Append(trace, Did("on_init")) \o Throw(thr)
            /\ onInitCalls' = onInitCalls + 1
            /\ tasks' = e.tasks
            /\ micro' = e.micro
            /\ sappConfig' = e.cfg
            /\ pc' = IF thr THEN "i_catch" ELSE "i_drain"
  /\ UNCHANGED <<phase, cb, s_hermesApp, now, s_started, s_start_time,
                 curTimeMs, nextTimeMs, ev>>
  /\ UNCHANGED bootVars /\ UNCHANGED auxVars

\* hermes->drainMicrotasks()
InitDrain ==
  /\ phase = "Running" /\ pc = "i_drain"
  /\ \E o \in DrainOutcomes(micro),
        q \in (IF ~micro THEN {tasks} ELSE JobEffects(tasks, 0..MaxDue)) :
       /\ trace' = Append(trace, Did("drainMicrotasks")) \o Throw(o.thr)
       /\ micro' = o.micro
       /\ tasks' = q
       /\ pc' = IF o.thr THEN "i_catch" ELSE "i_ret"
  /\ UNCHANGED <<phase, cb, s_hermesApp, sappConfig, now, s_started,
                 s_start_time, curTimeMs, nextTimeMs, ev, onInitCalls>>
  /\ UNCHANGED bootVars /\ UNCHANGED auxVars

\* a catch clause that logs and goes on
InitCatchContinues ==
  /\ phase = "Running" /\ pc = "i_catch"
  /\ trace' = Append(trace, Did("slog_func"))
  /\ pc' = "i_ret"
  /\ UNCHANGED <<phase, cb, s_hermesApp, sappConfig, tasks, micro, now,
                 s_started, s_start_time, curTimeMs, nextTimeMs, ev,
                 onInitCalls>>
  /\ UNCHANGED <<helpers, shDone, exitStatus, s_app_desc, projections,
                 windowCreated>>
  /\ UNCHANGED auxVars

\* catch (JSIException): slog_func, abort()
InitCatch ==
  /\ phase = "Running" /\ pc = "i_catch"
  /\ trace' = trace \o <<Did("slog_func"), Did("abort")>>
  /\ phase' = "Aborted"
  /\ pc' = "aborted"
  /\ UNCHANGED <<cb, s_hermesApp, sappConfig, tasks, micro, now, s_started,
                 s_start_time, curTimeMs, nextTimeMs, ev, onInitCalls>>
  /\ UNCHANGED bootVars /\ UNCHANGED auxVars

\* return to the native loop
InitReturn ==
  /\ phase = "Running" /\ pc = "i_ret"
  /\ cb' = "none" /\ pc' = "idle" /\ trace' = <<>>
  /\ tasks' = Settled(tasks)
  /\ UNCHANGED <<phase, s_hermesApp, sappConfig, micro, now, s_started,
                 s_start_time, curTimeMs, nextTimeMs, ev, onInitCalls>>
  /\ UNCHANGED bootVars /\ UNCHANGED auxVars

AppInit == InitSetup \/ InitCall \/ InitDrain \/ InitCatch \/ InitReturn

(***************************************************************************)
(* app_frame                                                               *)
(***************************************************************************)
\* the loop condition without its upper bound, and with a strict one
LoopCondNoUpperBound(next, cur) == next >= 0
LoopCondStrict(next, cur) == next >= 0 /\ next < cur

\* the drain loop's condition: nextTimeMs >= 0 && nextTimeMs <= curTimeMs
LoopCond(next, cur) == next >= 0 /\ next <= cur

\* due times the script may give a task it schedules during the drain loop
LoopDues(runs) ==
  IF runs < MaxRuns THEN 0..MaxDue ELSE (curTimeMs + 1)..MaxDue

\* a tick that projects sappConfig into s_app_desc again
FrameBeginReprojects ==
  /\ phase = "Running" /\ pc = "idle"
  /\ \E t \in now..MaxTime :
       /\ now' = t
       /\ curTimeMs' = t
       /\ IF ~s_started
          THEN s_started' = TRUE /\ s_start_time' = t
          ELSE UNCHANGED <<s_started, s_start_time>>
  /\ cb' = "frame"
  /\ trace' = <<Did("simgui_new_frame"), Did("sg_begin_default_pass")>>
  /\ pc' = "f_peek"
  /\ s_app_desc' = PopulateDesc(sappConfig)
  /\ UNCHANGED <<phase, s_hermesApp, sappConfig, tasks, micro, nextTimeMs,
                 ev, onInitCalls>>
  /\ UNCHANGED <<helpers, shDone, exitStatus, projections, windowCreated>>
  /\ UNCHANGED auxVars

\* the clock is read, the first tick records the start time, the GUI frame
\* and the render pass are begun.  (The once-a-second refresh of the
\* displayed FPS and metrics writes only the overlay's own numbers.)
FrameBegin ==
  /\ phase = "Running" /\ pc = "idle"
  /\ \E t \in now..MaxTime :
       /\ now' = t
       /\ curTimeMs' = t
       /\ IF ~s_started
          THEN s_started' = TRUE /\ s_start_time' = t
          ELSE UNCHANGED <<s_started, s_start_time>>
  /\ cb' = "frame"
  /\ trace' = <<Did("simgui_new_frame"), Did("sg_begin_default_pass")>>
  /\ pc' = "f_peek"
  /\ UNCHANGED <<phase, s_hermesApp, sappConfig, tasks, micro, nextTimeMs,
                 ev, onInitCalls>>
  /\ UNCHANGED bootVars /\ UNCHANGED auxVars

\* a loop that gives up after MaxTasks runs
FramePeekCapped ==
  /\ phase = "Running" /\ pc = "f_peek"
  /\ \E thr \in BOOLEAN :
       IF thr
       THEN /\ trace' = Append(trace, Did("peek")) \o Throw(TRUE)
            /\ pc' = "f_catch"
            /\ nextTimeMs' = nextTimeMs
       ELSE /\ trace' = Append(trace, Call("peek", Peek(tasks), FALSE))
            /\ nextTimeMs' = Peek(tasks)
            /\ pc' = IF /\ LoopCond(Peek(tasks), curTimeMs)
                        /\ Count(trace, "run") < MaxTasks
                     THEN "f_run" ELSE "f_on_frame"
  /\ UNCHANGED <<phase, cb, s_hermesApp, sappConfig, tasks, micro, now,
                 s_started, s_start_time, curTimeMs, ev, onInitCalls>>
  /\ UNCHANGED bootVars /\ UNCHANGED auxVars

\* nextTimeMs = peekMacroTask.call().getNumber(), and the loop condition
FramePeek ==
  /\ phase = "Running" /\ pc = "f_peek"
  /\ \E thr \in BOOLEAN :
       IF thr
       THEN /\ trace' = Append(trace, Did("peek")) \o Throw(TRUE)
            /\ pc' = "f_catch"
            /\ nextTimeMs' = nextTimeMs
       ELSE /\ trace' = Append(trace, Call("peek", Peek(tasks), FALSE))
            /\ nextTimeMs' = Peek(tasks)
            /\ pc' = IF LoopCond(Peek(tasks), curTimeMs)
                     THEN "f_run" ELSE "f_on_frame"
  /\ UNCHANGED <<phase, cb, s_hermesApp, sappConfig, tasks, micro, now,
                 s_started, s_start_time, curTimeMs, ev, onInitCalls>>
  /\ UNCHANGED bootVars /\ UNCHANGED auxVars

\* runMacroTask.call(curTimeMs): the task-queue library takes the head of
\* the queue and executes it
FrameRun ==
  /\ phase = "Running" /\ pc = "f_run"
  /\ IF tasks = <<>>
     THEN \E thr \in BOOLEAN :
            /\ trace' = Append(trace, Did("run")) \o Throw(thr)
            /\ pc' = IF thr THEN "f_catch" ELSE "f_drain"
            /\ UNCHANGED <<tasks, micro, sappConfig>>
     ELSE \E thr \in BOOLEAN,
             e \in ScriptEffects(Tail(tasks),
                                 LoopDues(Count(trace, "run") + 1),
                                 TaskConfigs) :
            /\ trace' = Append(trace, Call("run", tasks[1].due,
                                           tasks[1].fresh)) \o Throw(thr)
            /\ tasks' = e.tasks
            /\ micro' = e.micro
            /\ sappConfig' = e.cfg
            /\ pc' = IF thr THEN "f_catch" ELSE "f_drain"
  /\ UNCHANGED <<phase, cb, s_hermesApp, now, s_started, s_start_time,
                 curTimeMs, nextTimeMs, ev, onInitCalls>>
  /\ UNCHANGED bootVars /\ UNCHANGED auxVars

\* the loop going back to peek without draining
FrameDrainSkipped ==
  /\ phase = "Running" /\ pc = "f_drain"
  /\ pc' = "f_peek"
  /\ UNCHANGED <<phase, cb, trace, s_hermesApp, sappConfig, tasks, micro, now,
                 s_started, s_start_time, curTimeMs, nextTimeMs, ev,
                 onInitCalls>>
  /\ UNCHANGED <<helpers, shDone, exitStatus, s_app_desc, projections,
                 windowCreated>>
  /\ UNCHANGED auxVars

\* hermes->drainMicrotasks() inside the loop
FrameDrain ==
  /\ phase = "Running" /\ pc = "f_drain"
  /\ \E o \in DrainOutcomes(micro),
        q \in (IF ~micro THEN {tasks}
               ELSE JobEffects(tasks, LoopDues(Count(trace, "run")))) :
       /\ trace' = Append(trace, Did("drainMicrotasks")) \o Throw(o.thr)
       /\ micro' = o.micro
       /\ tasks' = q
       /\ pc' = IF o.thr THEN "f_catch" ELSE "f_peek"
  /\ UNCHANGED <<phase, cb, s_hermesApp, sappConfig, now, s_started,
                 s_start_time, curTimeMs, nextTimeMs, ev, onInitCalls>>
  /\ UNCHANGED bootVars /\ UNCHANGED auxVars

\* global().getPropertyAsFunction("on_frame").call(width, height, elapsed)
FrameOnFrame ==
  /\ phase = "Running" /\ pc = "f_on_frame"
  /\ \E kind \in PropertyKinds :
     IF GetPropertyAsFunctionThrows(kind)
     THEN /\ trace' = Append(trace, Did("on_frame:missing")) \o Throw(TRUE)
          /\ pc' = "f_catch"
          /\ UNCHANGED <<tasks, micro, sappConfig>>
     ELSE \E thr \in BOOLEAN,
             e \in ScriptEffects(tasks, 0..MaxDue, HandlerConfigs) :
            /\ trace' = Append(trace, Call("on_frame",
                                           curTimeMs - s_start_time, FALSE))
                        \o Throw(thr)
            /\ tasks' = e.tasks
            /\ micro' = e.micro
            /\ sappConfig' = e.cfg
            /\ pc' = IF thr THEN "f_catch" ELSE "f_drain2"
  /\ UNCHANGED <<phase, cb, s_hermesApp, now, s_started, s_start_time,
                 curTimeMs, nextTimeMs, ev, onInitCalls>>
  /\ UNCHANGED bootVars /\ UNCHANGED auxVars

\* the native steps that end the tick: update_performance_metrics,
\* simgui_render, the overlay, sg_end_pass, sg_commit
RenderSteps ==
  <<Did("update_performance_metrics"), Did("simgui_render"),
    Did("sdtx_draw"), Did("sg_end_pass"), Did("sg_commit")>>

\* hermes->drainMicrotasks() after on_frame, which ends the try block: the
\* native steps follow
FrameDrain2 ==
  /\ phase = "Running" /\ pc = "f_drain2"
  /\ \E o \in DrainOutcomes(micro),
        q \in (IF ~micro THEN {tasks} ELSE JobEffects(tasks, 0..MaxDue)) :
       /\ trace' = Append(trace, Did("drainMicrotasks"))
                   \o (IF o.thr THEN Throw(TRUE) ELSE RenderSteps)
       /\ micro' = o.micro
       /\ tasks' = q
       /\ pc' = IF o.thr THEN "f_catch" ELSE "f_ret"
  /\ UNCHANGED <<phase, cb, s_hermesApp, sappConfig, now, s_started,
                 s_start_time, curTimeMs, nextTimeMs, ev, onInitCalls>>
  /\ UNCHANGED bootVars /\ UNCHANGED auxVars

\* a catch clause that leaves app_frame
FrameCatchReturns ==
  /\ phase = "Running" /\ pc = "f_catch"
  /\ trace' = Append(trace, Did("slog_func"))
  /\ pc' = "f_ret"
  /\ UNCHANGED <<phase, cb, s_hermesApp, sappConfig, tasks, micro, now,
                 s_started, s_start_time, curTimeMs, nextTimeMs, ev,
                 onInitCalls>>
  /\ UNCHANGED <<helpers, shDone, exitStatus, s_app_desc, projections,
                 windowCreated>>
  /\ UNCHANGED auxVars

\* a catch clause that drains the microtasks before the native steps
FrameCatchDrains ==
  /\ phase = "Running" /\ pc = "f_catch"
  /\ trace' = trace \o <<Did("slog_func"), Did("drainMicrotasks")>>
                \o RenderSteps
  /\ micro' = FALSE
  /\ pc' = "f_ret"
  /\ UNCHANGED <<phase, cb, s_hermesApp, sappConfig, tasks, now,
                 s_started, s_start_time, curTimeMs, nextTimeMs, ev,
                 onInitCalls>>
  /\ UNCHANGED bootVars /\ UNCHANGED auxVars

\* catch (JSIException): slog_func, and on to the native steps
FrameCatch ==
  /\ phase = "Running" /\ pc = "f_catch"
  /\ trace' = Append(trace, Did("slog_func")) \o RenderSteps
  /\ pc' = "f_ret"
  /\ UNCHANGED <<phase, cb, s_hermesApp, sappConfig, tasks, micro, now,
                 s_started, s_start_time, curTimeMs, nextTimeMs, ev,
                 onInitCalls>>
  /\ UNCHANGED bootVars /\ UNCHANGED auxVars

\* return to the native loop
FrameReturn ==
  /\ phase = "Running" /\ pc = "f_ret"
  /\ cb' = "none" /\ pc' = "idle" /\ trace' = <<>>
  /\ tasks' = Settled(tasks)
  /\ curTimeMs' = 0 /\ nextTimeMs' = -1
  /\ UNCHANGED <<phase, s_hermesApp, sappConfig, micro, now, s_started,
                 s_start_time, ev, onInitCalls>>
  /\ UNCHANGED bootVars /\ UNCHANGED auxVars

AppFrame ==
  \/ FrameBegin \/ FramePeek \/ FrameRun \/ FrameDrain \/ FrameOnFrame
  \/ FrameDrain2 \/ FrameCatch \/ FrameReturn

(***************************************************************************)
(* The statistics of the overlay, tick after tick.  Nothing else in        *)
(* app_frame reads or writes them, so a tick is taken here with scripts    *)
(* that leave the task queue and sappConfig alone; the clock counts whole  *)
(* seconds, so that OneSecond stands for the 1000000000 ticks of line 243. *)
(***************************************************************************)
OneSecond == 1

\* what a field of globalThis.perfMetrics may hold: nothing, something that
\* is no number, or a number of milliseconds
NoMetric == [k |-> "absent", v |-> 0]
MetricValues ==
  {NoMetric, [k |-> "bad", v |-> 0]} \cup {[k |-> "number", v |-> n] : n \in 0..1}
\* globalThis.perfMetrics: absent, no object, or an object
PerfMetrics ==
  {m \in [k : {"absent", "bad", "object"}, reconciliationAvg : MetricValues,
          reconciliationMax : MetricValues, renderTime : MetricValues] :
     m.k # "object" =>
       /\ m.reconciliationAvg = NoMetric /\ m.reconciliationMax = NoMetric
       /\ m.renderTime = NoMetric}
\* 1.0 / sapp_frame_duration()
FrameRates == {30, 60}
Between(a, b) == IF a <= b THEN a..b ELSE b..a

\* update_performance_metrics: the fields are read in order; a field that
\* is no number makes asNumber throw, which ends the reading (catch (...));
\* the render time is averaged in, giving a value between the old average
\* and the sample
AvgAfter(old, m) ==
  IF m.k = "object" /\ m.reconciliationAvg.k = "number"
  THEN m.reconciliationAvg.v ELSE old
MaxAfter(old, m) ==
  IF m.k = "object" /\ m.reconciliationAvg.k # "bad"
     /\ m.reconciliationMax.k = "number"
  THEN m.reconciliationMax.v ELSE old
ImguiAvgAfter(old, m) ==
  IF m.k = "object" /\ m.reconciliationAvg.k # "bad"
     /\ m.reconciliationMax.k # "bad" /\ m.renderTime.k = "number"
  THEN Between(old, m.renderTime.v) ELSE {old}

\* a refresh in every tick
FlushDueAlways(diff) == diff >= 0

\* if (diff > 1000000000)
FlushDue(diff) == diff > OneSecond

FpsTick ==
  /\ phase = "Running" /\ pc = "idle"
  /\ \E t \in now..MaxFpsTime, rate \in FrameRates, m \in PerfMetrics :
       LET diff == IF t > s_last_fps_time THEN t - s_last_fps_time ELSE 0
       IN /\ now' = t
          /\ IF ~s_started
             THEN /\ s_started' = TRUE
                  /\ s_start_time' = t
                  /\ s_last_fps_time' = t
                  /\ UNCHANGED <<s_fps, s_react_avg_ms_display,
                                 s_react_max_ms_display,
                                 s_imgui_avg_ms_display>>
             ELSE /\ UNCHANGED <<s_started, s_start_time>>
                  /\ IF FlushDue(diff)
                     THEN /\ s_fps' = rate
                          /\ s_imgui_avg_ms_display' = s_imgui_avg_ms
                          /\ s_react_avg_ms_display' = s_react_avg_ms
                          /\ s_react_max_ms_display' = s_react_max_ms
                          /\ s_last_fps_time' = t
                     ELSE UNCHANGED <<s_fps, s_react_avg_ms_display,
                                      s_react_max_ms_display,
                                      s_imgui_avg_ms_display,
                                      s_last_fps_time>>
          /\ s_react_avg_ms' = AvgAfter(s_react_avg_ms, m)
          /\ s_react_max_ms' = MaxAfter(s_react_max_ms, m)
          /\ s_imgui_avg_ms' \in ImguiAvgAfter(s_imgui_avg_ms, m)
  /\ UNCHANGED <<phase, cb, pc, trace, helpers, s_hermesApp, shDone,
                 exitStatus, sappConfig, s_app_desc, projections,
                 windowCreated, tasks, micro, curTimeMs, nextTimeMs, ev,
                 onInitCalls>>
  /\ UNCHANGED <<mapVars, loadVars>>

\* the session between app_init and its first tick
InitFps ==
  /\ phase = "Running" /\ cb = "none" /\ pc = "idle" /\ trace = <<>>
  /\ helpers = [peek |-> "function", run |-> "function"]
  /\ s_hermesApp = [alive |-> TRUE, peekMacroTask |-> "function",
                    runMacroTask |-> "function"]
  /\ shDone = 0 /\ exitStatus = -1
  /\ sappConfig = SeedConfig /\ s_app_desc = PopulateDesc(SeedConfig)
  /\ projections = 1 /\ windowCreated = TRUE
  /\ tasks = <<>> /\ micro = FALSE /\ now = 0
  /\ s_started = FALSE /\ s_start_time = 0
  /\ curTimeMs = 0 /\ nextTimeMs = -1 /\ ev = NoEvent /\ onInitCalls = 1
  /\ MapIdle /\ LoadIdle /\ FpsInit

NextFps == FpsTick

SpecFps == InitFps /\ [][NextFps]_vars

(***************************************************************************)
(* app_event                                                               *)
(***************************************************************************)
Event(type, key_code, modifiers) ==
  [type |-> type, key_code |-> key_code, modifiers |-> modifiers]
\* the quit gesture with and without another modifier, and events that
\* differ from it in the type, in the key, or in the modifier alone
Events ==
  {Event("KEY_DOWN", "Q", {"SUPER"}), Event("KEY_DOWN", "Q", {"SHIFT", "SUPER"}),
   Event("KEY_UP", "Q", {"SUPER"}), Event("KEY_DOWN", "W", {"SHIFT", "SUPER"}),
   Event("KEY_DOWN", "Q", {"SHIFT"}), Event("KEY_DOWN", "Q", {})}

\* the test without its modifier mask
IsQuitGestureAnyModifier(e) == e.type = "KEY_DOWN" /\ e.key_code = "Q"

\* ev->type == SAPP_EVENTTYPE_KEY_DOWN && ev->key_code == SAPP_KEYCODE_Q &&
\* (ev->modifiers & SAPP_MODIFIER_SUPER)
IsQuitGesture(e) ==
  e.type = "KEY_DOWN" /\ e.key_code = "Q" /\ "SUPER" \in e.modifiers

\* the quit gesture: sapp_request_quit() and return; any other event goes on
EventBegin ==
  /\ phase = "Running" /\ pc = "idle"
  /\ \E e \in Events :
       /\ ev' = e
       /\ IF IsQuitGesture(e)
          THEN /\ trace' = <<Did("sapp_request_quit")>>
               /\ pc' = "e_ret"
          ELSE /\ trace' = <<>>
               /\ pc' = "e_call"
  /\ cb' = "event"
  /\ UNCHANGED <<phase, s_hermesApp, sappConfig, tasks, micro, now,
                 s_started, s_start_time, curTimeMs, nextTimeMs, onInitCalls>>
  /\ UNCHANGED bootVars /\ UNCHANGED auxVars

\* global().getPropertyAsFunction("on_event").call(type, key_code, modifiers)
EventCall ==
  /\ phase = "Running" /\ pc = "e_call"
  /\ \E kind \in PropertyKinds :
     IF GetPropertyAsFunctionThrows(kind)
     THEN /\ trace' = Append(trace, Did("on_event:missing")) \o Throw(TRUE)
          /\ pc' = "e_catch"
          /\ UNCHANGED <<tasks, micro, sappConfig>>
     ELSE \E thr \in BOOLEAN,
             e \in ScriptEffects(tasks, 0..MaxDue, TaskConfigs) :
            /\ trace' = Append(trace, CallEv("on_event", ev)) \o Throw(thr)
            /\ tasks' = e.tasks
            /\ micro' = e.micro
            /\ sappConfig' = e.cfg
            /\ pc' = IF thr THEN "e_catch" ELSE "e_drain"
  /\ UNCHANGED <<phase, cb, s_hermesApp, now, s_started, s_start_time,
                 curTimeMs, nextTimeMs, ev, onInitCalls>>
  /\ UNCHANGED bootVars /\ UNCHANGED auxVars

\* hermes->drainMicrotasks() after the event
EventDrain ==
  /\ phase = "Running" /\ pc = "e_drain"
  /\ \E o \in DrainOutcomes(micro),
        q \in (IF ~micro THEN {tasks} ELSE JobEffects(tasks, 0..MaxDue)) :
       /\ trace' = Append(trace, Did("drainMicrotasks")) \o Throw(o.thr)
       /\ micro' = o.micro
       /\ tasks' = q
       /\ pc' = IF o.thr THEN "e_catch" ELSE "e_forward"
  /\ UNCHANGED <<phase, cb, s_hermesApp, sappConfig, now, s_started,
                 s_start_time, curTimeMs, nextTimeMs, ev, onInitCalls>>
  /\ UNCHANGED bootVars /\ UNCHANGED auxVars

\* a catch clause that leaves app_event
EventCatchReturns ==
  /\ phase = "Running" /\ pc = "e_catch"
  /\ trace' = Append(trace, Did("slog_func"))
  /\ pc' = "e_ret"
  /\ UNCHANGED <<phase, cb, s_hermesApp, sappConfig, tasks, micro, now,
                 s_started, s_start_time, curTimeMs, nextTimeMs, ev,
                 onInitCalls>>
  /\ UNCHANGED <<helpers, shDone, exitStatus, s_app_desc, projections,
                 windowCreated>>
  /\ UNCHANGED auxVars

\* catch (JSIException): slog_func
EventCatch ==
  /\ phase = "Running" /\ pc = "e_catch"
  /\ trace' = Append(trace, Did("slog_func"))
  /\ pc' = "e_forward"
  /\ UNCHANGED <<phase, cb, s_hermesApp, sappConfig, tasks, micro, now,
                 s_started, s_start_time, curTimeMs, nextTimeMs, ev,
                 onInitCalls>>
  /\ UNCHANGED bootVars /\ UNCHANGED auxVars

\* simgui_handle_event(ev)
EventForward ==
  /\ phase = "Running" /\ pc = "e_forward"
  /\ trace' = Append(trace, CallEv("simgui_handle_event", ev))
  /\ pc' = "e_ret"
  /\ UNCHANGED <<phase, cb, s_hermesApp, sappConfig, tasks, micro, now,
                 s_started, s_start_time, curTimeMs, nextTimeMs, ev,
                 onInitCalls>>
  /\ UNCHANGED bootVars /\ UNCHANGED auxVars

\* return to the native loop
EventReturn ==
  /\ phase = "Running" /\ pc = "e_ret"
  /\ cb' = "none" /\ pc' = "idle" /\ trace' = <<>> /\ ev' = NoEvent
  /\ tasks' = Settled(tasks)
  /\ UNCHANGED <<phase, s_hermesApp, sappConfig, micro, now, s_started,
                 s_start_time, curTimeMs, nextTimeMs, onInitCalls>>
  /\ UNCHANGED bootVars /\ UNCHANGED auxVars

AppEvent ==
  \/ EventBegin \/ EventCall \/ EventDrain \/ EventCatch \/ EventForward
  \/ EventReturn

(***************************************************************************)
(* app_cleanup: the images, the GUI adapter, the overlay, the GPU device,  *)
(* then delete s_hermesApp (its members are destroyed in reverse order of  *)
(* declaration, the shRuntime handle last, by _sh_done).                   *)
(***************************************************************************)
\* the orders in which s_images.clear() may destroy n elements: the
\* standard fixes none; the libraries go front to back or back to front
ImageOrders(n) ==
  {[i \in 1..n |-> i], [i \in 1..n |-> n + 1 - i]}

\* an Image destroyed before its GUI-adapter handle was
DestroyImageTextureFirst(i) ==
  <<Call("sg_destroy_image", i, FALSE), Call("simgui_destroy_image", i, FALSE)>>

\* ~Image(): simgui_destroy_image(simguiImage_); sg_destroy_image(image_)
DestroyImage(i) ==
  <<Call("simgui_destroy_image", i, FALSE), Call("sg_destroy_image", i, FALSE)>>

\* s_images.clear(): every registered Image is destroyed
RECURSIVE ClearImages(_)
ClearImages(order) ==
  IF order = <<>> THEN <<>>
  ELSE DestroyImage(Head(order)) \o ClearImages(Tail(order))

\* ~HermesApp(): runMacroTask, peekMacroTask, then shRuntime's deleter
DeleteHermesApp ==
  <<Did("~runMacroTask"), Did("~peekMacroTask"), Did("_sh_done")>>

\* the images are those the scripts registered through load_image while the
\* session ran: any number up to MaxImages
AppCleanup ==
  /\ phase = "Running" /\ pc = "idle"
  /\ cb' = "cleanup"
  /\ \E n \in 0..MaxImages : \E order \in ImageOrders(n) :
       trace' = ClearImages(order)
                  \o <<Did("simgui_shutdown"), Did("sdtx_shutdown"),
                       Did("sg_shutdown")>>
                  \o DeleteHermesApp
  /\ shDone' = shDone + 1
  /\ s_hermesApp' = NoApp
  /\ phase' = "Terminated"
  /\ pc' = "terminated"
  /\ UNCHANGED <<helpers, exitStatus, s_app_desc, projections,
                 windowCreated, sappConfig, tasks, micro, now, s_started,
                 s_start_time, curTimeMs, nextTimeMs, ev, onInitCalls>>
  /\ UNCHANGED auxVars

Next == Boot \/ AppInit \/ AppFrame \/ AppEvent \/ AppCleanup

Spec == Init /\ [][Next]_vars

(***************************************************************************)
(* One tick of app_frame from its drain loop on, started on every queue    *)
(* the session can hold when a tick begins.  A callback that has started   *)
(* runs on to its return: no step of it is left pending for ever.          *)
(***************************************************************************)
\* the task queues of up to MaxTasks tasks, ordered by due time
LoopQueues ==
  LET Dues == UNION {[1..n -> 0..MaxDue] : n \in 0..MaxTasks}
      Sorted(d) == \A i \in 1..(Len(d) - 1) : d[i] <= d[i + 1]
  IN {[i \in 1..Len(d) |-> [due |-> d[i], fresh |-> FALSE]] :
        d \in {e \in Dues : Sorted(e)}}

\* the session's first tick, at any time, just after simgui_new_frame and
\* sg_begin_default_pass
InitLoop ==
  /\ phase = "Running" /\ cb = "frame" /\ pc = "f_peek"
  /\ trace = <<Did("simgui_new_frame"), Did("sg_begin_default_pass")>>
  /\ helpers = [peek |-> "function", run |-> "function"]
  /\ s_hermesApp = [alive |-> TRUE, peekMacroTask |-> "function",
                    runMacroTask |-> "function"]
  /\ shDone = 0 /\ exitStatus = -1
  /\ sappConfig = SeedConfig /\ s_app_desc = PopulateDesc(SeedConfig)
  /\ projections = 1 /\ windowCreated = TRUE
  /\ tasks \in LoopQueues /\ micro \in BOOLEAN
  /\ now \in 0..MaxTime /\ curTimeMs = now
  /\ s_started = TRUE /\ s_start_time = now
  /\ nextTimeMs = -1 /\ ev = NoEvent /\ onInitCalls = 1
  /\ MapIdle
  /\ LoadIdle
  /\ FpsInit

FrameSteps ==
  \/ FramePeek \/ FrameRun \/ FrameDrain \/ FrameOnFrame
  \/ FrameDrain2 \/ FrameCatch \/ FrameReturn

SpecLoop == InitLoop /\ [][FrameSteps]_vars /\ WF_vars(FrameSteps)

(***************************************************************************)
(* Properties of app_frame.                                                *)
(***************************************************************************)
\* whether position i of the tick's trace is a peek that answered d with
\* 0 <= d <= curTimeMs
DuePeekAt(i) ==
  /\ i >= 1 /\ trace[i].op = "peek"
  /\ 0 <= trace[i].v /\ trace[i].v <= curTimeMs
\* whether the tick so far raised a script error
TickThrew == Has(trace, "throw")

\* C1: in a tick, run is called only right after a peek that answered d
\* with 0 <= d <= curTimeMs; a peek that answers a negative number or one
\* greater than curTimeMs is followed by no run and no peek, and no task
\* run in the tick has a due time greater than curTimeMs.
C1_RunOnlyAfterDuePeek ==
  cb = "frame" =>
    /\ \A i \in 1..Len(trace) :
         trace[i].op = "run" =>
           /\ DuePeekAt(i - 1)
           /\ trace[i].v <= curTimeMs
    /\ \A i \in 1..Len(trace) :
         (trace[i].op = "peek" /\ ~DuePeekAt(i)) =>
           \A j \in (i + 1)..Len(trace) : trace[j].op \notin {"run", "peek"}
    /\ pc = "f_run" => DuePeekAt(Len(trace))

\* a tick ran a task and its loop ended on a task due later
C1_Witness ==
  /\ cb = "frame" /\ pc = "f_ret"
  /\ Has(trace, "run")
  /\ \E i \in 1..Len(trace) : trace[i].op = "peek" /\ trace[i].v > curTimeMs

\* C2: in a tick without script error on_frame is called only after the
\* loop ended on a peek that found nothing due, and at that moment the
\* queue is empty or every task in it is due strictly after curTimeMs; a
\* task scheduled during the tick's loop with a due time <= curTimeMs has
\* been run by then.
C2_OnFrameAfterDueTasks ==
  cb = "frame" =>
    /\ pc = "f_on_frame" =>
         /\ ~TickThrew
         /\ \A i \in 1..Len(tasks) : tasks[i].due > curTimeMs
         /\ trace[Len(trace)].op = "peek" /\ ~DuePeekAt(Len(trace))
    /\ \A i \in 1..Len(trace) :
         trace[i].op \in {"on_frame", "on_frame:missing"} =>
           /\ i > 1 /\ trace[i - 1].op = "peek" /\ ~DuePeekAt(i - 1)
           /\ \A j \in 1..(i - 1) : trace[j].op # "throw"

\* on_frame is about to be called after two runs, the second of a task
\* scheduled in this very tick
C2_Witness ==
  /\ cb = "frame" /\ pc = "f_on_frame"
  /\ Count(trace, "run") >= 2
  /\ \E i \in 1..Len(trace) : trace[i].op = "run" /\ trace[i].fresh
  /\ tasks # <<>>

\* C3: in a tick every run that returns is followed by a microtask drain
\* before the next peek, and on_frame by a drain before the native render
\* steps; a drain that returns leaves no microtask pending; on_frame is
\* called at most once, and exactly once in a tick without script error.
C3_DrainAfterEveryMacrotask ==
  cb = "frame" =>
    /\ \A i \in 1..Len(trace) :
         (trace[i].op \in {"run", "on_frame"} /\ i < Len(trace)) =>
           trace[i + 1].op \in {"drainMicrotasks", "throw"}
    /\ \A i \in 1..Len(trace) :
         (trace[i].op = "drainMicrotasks" /\ i > 1) =>
           trace[i - 1].op \in {"run", "on_frame"}
    /\ ((trace[Len(trace)].op = "drainMicrotasks" \/ pc = "f_ret")
        /\ ~TickThrew) => ~micro
    /\ pc = "f_drain" => trace[Len(trace)].op = "run"
    /\ pc = "f_drain2" => trace[Len(trace)].op = "on_frame"
    /\ Count(trace, "on_frame") <= 1
    /\ (pc \in {"f_drain2", "f_ret"} /\ ~TickThrew) =>
         /\ Count(trace, "on_frame") = 1
         /\ Count(trace, "drainMicrotasks") = Count(trace, "run") + 1
            \/ pc = "f_drain2"

\* an error-free tick with two runs, finished
C3_Witness ==
  /\ cb = "frame" /\ pc = "f_ret" /\ ~TickThrew
  /\ Count(trace, "run") >= 2
  /\ Count(trace, "drainMicrotasks") = 3

\* the five native steps, all different
RenderOps ==
  {"update_performance_metrics", "simgui_render", "sdtx_draw", "sg_end_pass",
   "sg_commit"}

\* C4: whatever script error a tick raises, it is caught inside app_frame
\* (logged, the session still Running), and the tick ends with the native
\* render steps, each executed exactly once, as in an error-free tick.
C4_ErrorsCaughtAndRendered ==
  cb = "frame" =>
    /\ phase = "Running"
    /\ \A i \in 1..Len(trace) :
         trace[i].op = "throw" =>
           IF i = Len(trace) THEN pc = "f_catch"
           ELSE trace[i + 1].op = "slog_func"
    /\ Count(trace, "throw") <= 1
    /\ pc = "f_ret" =>
         /\ Len(trace) >= Len(RenderSteps)
         /\ SubSeq(trace, Len(trace) - Len(RenderSteps) + 1, Len(trace))
              = RenderSteps
         /\ \A i \in 1..(Len(trace) - Len(RenderSteps)) :
              trace[i].op \notin RenderOps
    /\ pc # "f_ret" =>
         \A i \in 1..Len(trace) : trace[i].op \notin RenderOps

\* a tick whose task threw, rendered all the same
C4_Witness ==
  /\ cb = "frame" /\ pc = "f_ret" /\ phase = "Running"
  /\ \E i \in 2..Len(trace) : trace[i].op = "throw" /\ trace[i - 1].op = "run"
  /\ Has(trace, "sg_commit")

(***************************************************************************)
(* Properties of app_event.                                                *)
(***************************************************************************)
\* the quit gesture as the host's documentation states it: a key-down of Q
\* while the quit modifier is held, whatever else is held
QuitGestureEvent(e) ==
  e \in {Event("KEY_DOWN", "Q", m) : m \in {{"SUPER"}, {"SHIFT", "SUPER"}}}

\* what holds of app_event, and of every tick, in every state
C5_EventHandled ==
  /\ (cb = "event" /\ ~QuitGestureEvent(ev)) =>
       /\ phase = "Running"
       /\ pc = "e_ret" =>
            /\ trace[Len(trace)] = CallEv("simgui_handle_event", ev)
            /\ Count(trace, "simgui_handle_event") = 1
            /\ trace[1].op \in {"on_event", "on_event:missing"}
            /\ trace[1].op = "on_event" => trace[1].arg = ev
            /\ ~Has(trace, "throw") =>
                 trace = <<CallEv("on_event", ev), Did("drainMicrotasks"),
                           CallEv("simgui_handle_event", ev)>>
            /\ Has(trace, "throw") =>
                 /\ SubSeq(trace, Len(trace) - 2, Len(trace))
                      = <<Did("throw"), Did("slog_func"),
                          CallEv("simgui_handle_event", ev)>>
                 /\ Len(trace) \in 4..5
                 /\ Len(trace) = 5 => trace[2] = Did("drainMicrotasks")
  /\ (cb = "frame" /\ pc = "f_ret" /\ ~TickThrew) =>
       /\ Count(trace, "on_frame") = 1
       /\ \A i \in 1..Len(tasks) : tasks[i].due > curTimeMs \/ tasks[i].fresh
\* app_event ends, error or not, by returning to the native loop with the
\* session Running
C5_EventReturns ==
  (cb = "event" /\ pc = "e_ret") =>
    (phase' = "Running" /\ cb' = "none" /\ pc' = "idle")

\* C5: for an event that is not the quit gesture app_event calls on_event
\* with the event, then drains the microtasks, then forwards the event to
\* the GUI adapter; an error of on_event or of the drain is caught and
\* logged, the event is forwarded all the same and app_event returns to
\* the native loop with the session Running; every tick, whatever events
\* came before it, ends its loop and calls on_frame once when it raises
\* no error itself.
C5_EventDispatchedAndForwarded ==
  []C5_EventHandled /\ [][C5_EventReturns]_vars

\* an event whose handler threw has been forwarded to the GUI adapter
C5_Witness ==
  /\ cb = "event" /\ pc = "e_ret" /\ phase = "Running"
  /\ ~QuitGestureEvent(ev)
  /\ Ops(trace) = <<"on_event", "throw", "slog_func", "simgui_handle_event">>
  /\ trace[4].arg = ev

\* C6: for a key-down of Q with the quit modifier held (whatever else is
\* held) app_event requests the native exit and returns: no on_event, no
\* microtask drain, no forwarding; for any other event, and in any other
\* callback, the host requests no exit.
C6_QuitGestureBypassesScript ==
  /\ (cb = "event" /\ QuitGestureEvent(ev)) =>
       /\ trace = <<Did("sapp_request_quit")>>
       /\ pc = "e_ret"
  /\ (cb # "event" \/ ~QuitGestureEvent(ev)) =>
       \A i \in 1..Len(trace) : trace[i].op # "sapp_request_quit"

\* the quit gesture with another modifier held has been handled
C6_Witness ==
  /\ cb = "event" /\ pc = "e_ret"
  /\ ev = Event("KEY_DOWN", "Q", {"SHIFT", "SUPER"})
  /\ Ops(trace) = <<"sapp_request_quit">>

(***************************************************************************)
(* Properties of sokol_main.                                               *)
(***************************************************************************)
\* the evaluations of the application unit and of the imgui unit
AppUnitEvaluations ==
  {"evaluateSHUnit", "evaluateJavaScript", "evaluateJavaScriptWithSourceMap",
   "evaluateSHUnit:imgui"}
\* the bootstrap met a failure: a unit's evaluation or another step threw,
\* peek or run is not callable, or the script file could not be mapped
BootstrapFailed ==
  /\ cb = "main"
  /\ \/ Has(trace, "throw")
     \/ /\ pc \notin {"b_jslib", "b_env", "b_newapp"}
        /\ helpers.peek # "function" \/ helpers.run # "function"
     \/ \E i \in 1..Len(trace) :
          /\ trace[i].op = "mapFileBuffer:failed"
          /\ trace[i].path = BundlePath

\* C7: when a bootstrap step fails sokol_main goes to its catch clauses
\* and the process exits with status 1: no window, no callback; a callback
\* runs only with a window, a live process and an application whose peek
\* and run handles are callable functions.
C7_BootstrapFailureIsFatal ==
  /\ BootstrapFailed => pc \in {"b_catch", "exited"}
  /\ pc = "exited" <=> phase = "Exited"
  /\ phase = "Exited" =>
       /\ exitStatus = 1 /\ shDone = 1
       /\ ~windowCreated /\ cb = "main" /\ onInitCalls = 0
  /\ phase = "Boot" => (~windowCreated /\ cb = "main" /\ exitStatus = -1)
  /\ cb \in {"init", "frame", "event", "cleanup"} =>
       (windowCreated /\ exitStatus = -1)
  /\ cb \in {"init", "frame", "event"} =>
       /\ s_hermesApp.alive
       /\ s_hermesApp.peekMacroTask = "function"
       /\ s_hermesApp.runMacroTask = "function"

\* the jslib unit gave a callable peek and no callable run: exit(1)
C7_Witness ==
  /\ phase = "Exited" /\ exitStatus = 1 /\ ~windowCreated
  /\ helpers.peek = "function" /\ helpers.run = "undefined"
  /\ Has(trace, "throw")

\* what holds of the projection in every state
C8_ProjectedOnceBeforeWindow ==
  /\ cb = "main" =>
       /\ \A i \in 1..Len(trace) :
            trace[i].op \in AppUnitEvaluations =>
              \E j \in 1..(i - 1) : trace[j].op = "set sappConfig"
       /\ \A i \in 1..Len(trace) :
            trace[i].op = "populate" =>
              /\ \E j \in 1..(i - 1) : trace[j].op = "evaluateSHUnit:imgui"
              /\ \A j \in (i + 1)..Len(trace) :
                   trace[j].op \notin AppUnitEvaluations
       /\ Count(trace, "populate") <= 1
       /\ pc \in {"b_jslib", "b_env", "b_newapp", "b_run0", "b_seed"} =>
            sappConfig = JSAbsent
       /\ pc = "b_main" => sappConfig = SeedConfig
  /\ projections \in {0, 1}
  /\ projections = 0 => (s_app_desc = ZeroDesc /\ ~windowCreated)
  /\ pc = "b_return" =>
       (projections = 1 /\ ~windowCreated
        /\ s_app_desc = PopulateDesc(sappConfig))
  /\ windowCreated => projections = 1
\* what holds of every step once the projection is made
C8_DescFrozen ==
  projections >= 1 =>
    (s_app_desc' = s_app_desc /\ projections' = projections)

\* C8: sappConfig is seeded before the application unit is evaluated; it
\* is projected into s_app_desc exactly once, after every unit has been
\* evaluated and before the window is created; no later step (init, event,
\* frame, cleanup, a script changing sappConfig) changes s_app_desc.
C8_ConfigProjectedOnce ==
  []C8_ProjectedOnceBeforeWindow /\ [][C8_DescFrozen]_vars

\* a tick's on_frame replaced sappConfig and s_app_desc still is the seed's
C8_Witness ==
  /\ windowCreated /\ cb = "frame" /\ Has(trace, "on_frame")
  /\ sappConfig = CustomConfig
  /\ s_app_desc = PopulateDesc(SeedConfig)
  /\ s_app_desc # PopulateDesc(CustomConfig)

(***************************************************************************)
(* Properties of app_init.                                                 *)
(***************************************************************************)
\* what app_init does whether or not the script defines on_init
C9_InitCommon ==
  /\ cb = "init" =>
       /\ Len(trace) >= 4
       /\ Ops(SubSeq(trace, 1, 4))
            = <<"sg_setup", "simgui_setup", "sg_make_sampler", "sdtx_setup">>
       /\ Count(trace, "on_init") <= 1
       /\ \A i \in 1..Len(trace) :
            trace[i].op = "on_init" =>
              /\ i = 5
              /\ i < Len(trace) =>
                   trace[i + 1].op \in {"drainMicrotasks", "throw"}
       /\ Count(trace, "drainMicrotasks") <= 1
       /\ pc = "i_ret" =>
            Ops(trace) = <<"sg_setup", "simgui_setup", "sg_make_sampler",
                           "sdtx_setup", "on_init", "drainMicrotasks">>
       /\ Has(trace, "throw") => pc \in {"i_catch", "aborted"}
  /\ onInitCalls <= 1
  /\ (cb \in {"frame", "event"}
      /\ \E i \in 1..Len(trace) :
           trace[i].op \in {"on_frame", "on_event", "run", "peek"}) =>
       onInitCalls = 1
  /\ phase = "Aborted" =>
       /\ cb = "init" /\ pc = "aborted"
       /\ Ops(SubSeq(trace, Len(trace) - 2, Len(trace)))
            = <<"throw", "slog_func", "abort">>
  /\ pc = "aborted" <=> phase = "Aborted"

\* C9 as amended: app_init sets up the GPU device, the GUI adapter and
\* the overlay, looks on_init up and calls it once, before any on_frame or
\* on_event, and drains the microtasks once; when the script defines no
\* on_init the lookup throws, and that error, like an error thrown by
\* on_init or by the drain, is logged and aborts the process, so that no
\* frame or event callback follows.
C9_InitCallsOnInitOrAborts ==
  /\ C9_InitCommon
  /\ (cb = "init" /\ Has(trace, "on_init:missing")) =>
       /\ pc \in {"i_catch", "aborted"}
       /\ onInitCalls = 0
       /\ ~Has(trace, "drainMicrotasks")
  /\ cb \in {"frame", "event", "cleanup"} => onInitCalls = 1

\* C9 as stated: on_init is called only if the script defines it, and
\* when it is absent app_init completes without error and the session goes
\* on to frames.
C9_AbsentOnInitCompletes ==
  /\ C9_InitCommon
  /\ (cb = "init" /\ Has(trace, "on_init:missing")) =>
       /\ ~Has(trace, "throw")
       /\ phase = "Running"
       /\ pc \notin {"i_catch", "aborted"}

\* the script defines no on_init and the process has aborted
C9_Witness ==
  /\ phase = "Aborted" /\ cb = "init"
  /\ Has(trace, "on_init:missing") /\ Has(trace, "abort")
  /\ onInitCalls = 0

(***************************************************************************)
(* Properties of MappedFileBuffer.                                         *)
(***************************************************************************)
\* the constructor has computed its three sizes
SizesComputed ==
  \/ m_pc \in {"mmap", "live", "destroyed"}
  \/ m_pc = "thrown" /\ m_err = "Failed to mmap"

\* C10: for a file of f bytes, a page size p and the flag
\* attemptTrailingZero, mappedSize_ is the least multiple of p that is at
\* least f; size_ is f + 1 when the flag is set and f is no multiple of p,
\* and f otherwise (0 for an empty file); size_ never exceeds mappedSize_.
C10_MappedSizes ==
  SizesComputed =>
    LET f == m_in.size
        p == m_in.pageSize
    IN /\ fileSize_ = f
       /\ mappedSize_ % p = 0
       /\ mappedSize_ >= f
       /\ mappedSize_ - f < p
       /\ (m_in.zero /\ f % p # 0) => size_ = f + 1
       /\ ~(m_in.zero /\ f % p # 0) => size_ = f
       /\ size_ = f + 1 => (m_in.zero /\ f % p # 0)
       /\ f = 0 => (size_ = 0 /\ mappedSize_ = 0)
       /\ size_ <= mappedSize_

\* a mapped file that ends one byte short of a page: the terminator is the
\* last byte of the mapping
C10_Witness ==
  /\ m_pc = "live" /\ m_in.zero
  /\ fileSize_ > 0
  /\ size_ = fileSize_ + 1
  /\ size_ = mappedSize_

\* C11: mapping an empty file gives mappedSize_ = pageSize, and the
\* constructor returns a buffer of size 0, the terminator asked for or not.
C11_EmptyFileMapsOnePage ==
  (SizesComputed /\ m_in.size = 0) =>
    /\ mappedSize_ = m_in.pageSize
    /\ size_ = 0
    /\ m_pc # "thrown"

\* C11 as the code has it: for an empty file mappedSize_ and size_ are both
\* 0, the terminator asked for or not; the mmap of length 0 is refused, so
\* the constructor closes the descriptor and throws: no buffer is returned.
C11_EmptyFileIsNotMapped ==
  (SizesComputed /\ m_in.size = 0) =>
    /\ mappedSize_ = 0
    /\ size_ = 0
    /\ m_pc \in {"mmap", "thrown"}
    /\ m_pc = "thrown" =>
         (m_err = "Failed to mmap" /\ m_sys = <<"open", "close">>)

\* the constructor has thrown on an empty file, the terminator asked for
C11_Witness ==
  /\ m_pc = "thrown"
  /\ m_err = "Failed to mmap"
  /\ m_in.size = 0
  /\ m_in.zero
  /\ m_in.pageSize > 1

\* the calls on the descriptor, and on the mapping, made so far
FdCalls == SelectSeq(m_sys, LAMBDA c : c \in {"open", "close"})
MappingCalls == SelectSeq(m_sys, LAMBDA c : c \in {"mmap", "munmap"})

\* C19: a descriptor that was opened is closed exactly once and a mapping
\* that was established is unmapped exactly once: nothing is held when
\* open fails; when fstat or mmap fails the descriptor is closed before the
\* error is raised and no buffer exists; a constructed buffer holds both
\* until its destructor unmaps first and closes second.
C19_DescriptorAndMappingReleasedOnce ==
  /\ m_pc \in {"open", "none"} => m_sys = <<>>
  /\ m_pc = "fstat" => (m_sys = <<"open">> /\ fd_ >= 0)
  /\ m_pc = "mmap" => (m_sys = <<"open">> /\ fd_ >= 0)
  /\ m_pc = "thrown" =>
       /\ m_err = "Failed to open" => (m_sys = <<>> /\ fd_ < 0)
       /\ m_err \in {"Failed to stat", "Failed to mmap"} =>
            m_sys = <<"open", "close">>
       /\ m_err # "none"
       /\ data_ \in {"nullptr", "MAP_FAILED"}
  /\ m_pc = "live" =>
       (m_sys = <<"open", "mmap">> /\ fd_ >= 0 /\ data_ = "addr")
  /\ m_pc = "destroyed" => m_sys = <<"open", "mmap", "munmap", "close">>
  /\ Len(FdCalls) <= 2 /\ Len(MappingCalls) <= 2
  /\ m_pc \in {"thrown", "destroyed"} =>
       /\ FdCalls \in {<<>>, <<"open", "close">>}
       /\ MappingCalls \in {<<>>, <<"mmap", "munmap">>}

\* a buffer was constructed and destroyed
C19_Witness ==
  /\ m_pc = "destroyed"
  /\ m_sys = <<"open", "mmap", "munmap", "close">>

(***************************************************************************)
(* Properties of the end of the session.                                   *)
(***************************************************************************)
\* the positions of op in the trace
Positions(op) == {i \in 1..Len(trace) : trace[i].op = op}
\* every call of op1 is made before every call of op2
AllBefore(op1, op2) == \A i \in Positions(op1) : \A j \in Positions(op2) : i < j
ImageOps == {"simgui_destroy_image", "sg_destroy_image"}
ImagePositions == {i \in 1..Len(trace) : trace[i].op \in ImageOps}
DestroyedImages == {trace[i].v : i \in ImagePositions}

\* C16: app_cleanup destroys every registered image (its GUI-adapter handle
\* before its GPU texture), then shuts down the GUI adapter, the overlay
\* and the GPU device, and deletes the HermesApp last, whose run and peek
\* function handles are released before _sh_done: no image handle is
\* destroyed after sg_shutdown and no function handle after _sh_done.
C16_ShutdownOrder ==
  phase = "Terminated" =>
    /\ \A op \in {"simgui_shutdown", "sdtx_shutdown", "sg_shutdown",
                  "~runMacroTask", "~peekMacroTask", "_sh_done"} :
         Cardinality(Positions(op)) = 1
    /\ \A k \in DestroyedImages :
         \E i, j \in ImagePositions :
           /\ i < j
           /\ trace[i] = Call("simgui_destroy_image", k, FALSE)
           /\ trace[j] = Call("sg_destroy_image", k, FALSE)
           /\ \A h \in ImagePositions : trace[h].v = k => h \in {i, j}
    /\ \A i \in ImagePositions : \A j \in Positions("simgui_shutdown") : i < j
    /\ AllBefore("simgui_shutdown", "sdtx_shutdown")
    /\ AllBefore("sdtx_shutdown", "sg_shutdown")
    /\ AllBefore("sg_shutdown", "~runMacroTask")
    /\ AllBefore("sg_shutdown", "~peekMacroTask")
    /\ AllBefore("~runMacroTask", "_sh_done")
    /\ AllBefore("~peekMacroTask", "_sh_done")
    /\ trace[Len(trace)].op = "_sh_done"

\* a session that ended with MaxImages images registered
C16_Witness ==
  /\ phase = "Terminated"
  /\ Cardinality(DestroyedImages) = MaxImages
  /\ trace[1] = Call("simgui_destroy_image", MaxImages, FALSE)

\* C17: once the VM exists _sh_done runs exactly once on every way out that
\* is not an abort: in app_cleanup, and in sokol_main's catch path whether
\* the HermesApp had been created or not; it has not run while the session
\* is live, and after app_cleanup s_hermesApp is null.
C17_TeardownExactlyOnce ==
  /\ phase \in {"Boot", "Running"} => shDone = 0
  /\ phase \in {"Exited", "Terminated"} => shDone = 1
  /\ phase = "Exited" => Count(trace, "_sh_done") = 1
  /\ phase = "Terminated" =>
       (s_hermesApp = NoApp /\ Count(trace, "_sh_done") = 1)

\* the bootstrap failed after the HermesApp had been created
C17_Witness ==
  /\ phase = "Exited"
  /\ s_hermesApp # NoApp
  /\ shDone = 1

(***************************************************************************)
(* Termination of the drain loop.                                          *)
(***************************************************************************)
\* the peeks of the tick so far that found a task due
DuePeeks == {i \in 1..Len(trace) : DuePeekAt(i)}
\* position i is a peek that returned a number outside 0..curTimeMs
IdlePeekAt(i) ==
  /\ trace[i].op = "peek" /\ ~DuePeekAt(i)
  /\ i < Len(trace) => trace[i + 1].op # "throw"
\* the tick is in its drain loop, and it has left it
InDrainLoop == phase = "Running" /\ pc \in {"f_peek", "f_run", "f_drain"}
DrainLoopLeft == pc \in {"f_on_frame", "f_catch"}

\* the counting part of C18
C18_RunsMatchDuePeeks ==
  cb = "frame" =>
    /\ Count(trace, "run")
         = Cardinality(DuePeeks) - (IF pc = "f_run" THEN 1 ELSE 0)
    /\ pc = "f_run" <=> (trace # <<>> /\ DuePeekAt(Len(trace)))
    /\ pc = "f_on_frame" <=> (trace # <<>> /\ IdlePeekAt(Len(trace)))
    /\ Has(trace, "sg_commit") =>
         (TickThrew \/ \E i \in 1..Len(trace) : IdlePeekAt(i))
    /\ \A i \in 1..Len(trace) :
         IdlePeekAt(i) => \A j \in (i + 1)..Len(trace) :
                            trace[j].op \notin {"peek", "run"}

\* a step from a peek that found a task due goes to run, whatever the
\* number of runs so far; a drain that returns goes back to peek
C18_LoopContinues ==
  /\ (pc = "f_peek" /\ pc' # "f_peek" /\ ~Has(trace', "throw")
        /\ LoopCond(nextTimeMs', curTimeMs)) => pc' = "f_run"
  /\ (pc = "f_drain" /\ pc' # "f_drain") => pc' \in {"f_peek", "f_catch"}

\* C18: the drain loop has no iteration cap and no check for repeats: the
\* runs of a tick are as many as the consecutive peeks that returned a
\* number in 0..curTimeMs; the tick reaches on_frame only after a peek
\* that returned a number outside that range, and the render steps only
\* after such a peek or a script error, so that while every run leaves a
\* task due the tick stays in the loop; when every run removes the task it
\* executed and finitely many tasks are due, the loop is left.
C18_DrainLoopUnbounded ==
  /\ []C18_RunsMatchDuePeeks
  /\ [][C18_LoopContinues]_vars
  /\ InDrainLoop ~> DrainLoopLeft

\* a tick that ran one task more than the queue can hold, one of them
\* scheduled during the loop, before on_frame
C18_Witness ==
  /\ cb = "frame" /\ pc = "f_on_frame"
  /\ Count(trace, "run") = MaxTasks + 1
  /\ \E i \in 1..Len(trace) : trace[i].op = "run" /\ trace[i].fresh

(***************************************************************************)
(* Properties of imgui_load_unit.                                          *)
(***************************************************************************)
LoadDone == l_pc \in {"returned", "thrown"}
\* the entries of the call's log with an operation of ops
LogOps(ops) == {i \in 1..Len(l_log) : l_log[i].op \in ops}
MapOps == {"mapFileBuffer", "mapFileBuffer:failed"}
ScriptEvalOps == {"evaluateJavaScript", "evaluateJavaScriptWithSourceMap"}
\* the call gets as far as its file modes
FileModesEntered == l_in.jsPath # "" /\ ~(l_in.nativeUnit /\ l_in.nativeThrows)
BytecodeMode == FileModesEntered /\ l_in.bytecode
SourceMode == FileModesEntered /\ ~l_in.bytecode

\* C12: with a native unit supplied, whatever bytecode, jsPath and
\* sourceURL are, the call evaluates the native unit and nothing else: it
\* maps no file and evaluates no script.
C12_NativeUnitOnly ==
  (LoadDone /\ l_in.nativeUnit) =>
    /\ Cardinality(LogOps({"evaluateSHUnit"})) = 1
    /\ LogOps(MapOps) = {}
    /\ LogOps(ScriptEvalOps) = {}

\* C13: in source mode a source map that cannot be mapped is the one
\* failure the call swallows: the script is then evaluated exactly once,
\* without source map, and the call fails only if that evaluation does;
\* when the source map is mapped the script is evaluated exactly once,
\* with it; when the script itself cannot be mapped the call throws and
\* nothing of the file is evaluated; an evaluation error leaves the call.
C13_OnlySourceMapFailureSwallowed ==
  (LoadDone /\ SourceMode) =>
    LET buffer == MapFileBuffer(l_in.script, TRUE)
        sourceMapBuf == MapFileBuffer(l_in.map, TRUE)
        evals == LogOps(ScriptEvalOps)
    IN /\ ~buffer.ok =>
            /\ l_pc = "thrown"
            /\ evals = {}
            /\ Cardinality(LogOps(MapOps)) = 1
       /\ buffer.ok =>
            /\ Cardinality(evals) = 1
            /\ \A i \in evals :
                 l_log[i].op = (IF sourceMapBuf.ok
                                THEN "evaluateJavaScriptWithSourceMap"
                                ELSE "evaluateJavaScript")
            /\ l_pc = "thrown" <=> l_in.evalThrows
       /\ l_pc = "thrown" <=> (~buffer.ok \/ l_in.evalThrows)

\* the script is evaluated after its source map failed to map
C13_Witness ==
  /\ l_pc = "returned" /\ SourceMode /\ ~l_in.nativeUnit
  /\ ~l_in.map.exists
  /\ \E i \in 1..Len(l_log) :
       l_log[i].op = "mapFileBuffer:failed" /\ l_log[i].name = "Failed to open"
  /\ l_log[Len(l_log)].op = "evaluateJavaScript"

\* the size a file maps to without the terminator: its own
PlainSize(file) == file.size

\* C20: bytecode mode maps the file without asking for the terminator, so
\* the buffer evaluated has the size of the file; source mode asks for the
\* terminator on the script and on the source map, which is looked for at
\* jsPath + ".map"; the name passed to the evaluation is sourceURL when
\* one is given and jsPath otherwise.
C20_TrailingZeroByMode ==
  (LoadDone /\ FileModesEntered) =>
    /\ \A i \in LogOps(MapOps) :
         /\ l_log[i].zero = ~l_in.bytecode
         /\ l_log[i].path \in {l_in.jsPath, l_in.jsPath \o ".map"}
         /\ l_log[i].path = l_in.jsPath \o ".map" => ~l_in.bytecode
    /\ \A i \in LogOps(ScriptEvalOps) :
         /\ l_log[i].name
              = (IF l_in.sourceURL # "" THEN l_in.sourceURL ELSE l_in.jsPath)
         /\ l_in.bytecode => l_log[i].size = PlainSize(l_in.script)
         /\ ~l_in.bytecode =>
              l_log[i].size
                = ReportedSize(l_in.script.size, l_in.script.pageSize, TRUE)
    /\ LogOps(MapOps) # {}
    /\ SourceMode /\ MapFileBuffer(l_in.script, TRUE).ok =>
         \E i \in LogOps(MapOps) :
           l_log[i].path = l_in.jsPath \o ".map" /\ l_log[i].zero

\* bytecode of 3 bytes in pages of 4, evaluated under the name of its path
C20_Witness ==
  /\ l_pc = "returned" /\ BytecodeMode
  /\ l_in.sourceURL = "" /\ l_in.script.size = 3
  /\ \E i \in LogOps(ScriptEvalOps) :
       l_log[i].size = 3 /\ l_log[i].name = l_in.jsPath

(***************************************************************************)
(* Properties of the projection's conversions.                             *)
(***************************************************************************)
\* the default each READ_INT_PROP passes
IntDefaults ==
  [width |-> 0, height |-> 0, sample_count |-> 1, swap_interval |-> 1,
   clipboard_size |-> 8192, max_dropped_files |-> 1,
   max_dropped_file_path_length |-> 2048]
\* n is the number with 2 * value = h cut off toward zero
IsTruncation(n, h) ==
  IF h >= 0 THEN 2 * n <= h /\ h < 2 * n + 2
  ELSE 2 * n - 2 < h /\ h <= 2 * n
Projected == projections = 1 /\ isObject(sappConfig)

\* C14: an integer field of sappConfig that is NaN or an infinity gives
\* its default (0, 0, 1, 1, 8192, 1, 2048 in the order of the fields); a
\* finite number above INT_MAX gives INT_MAX, one below INT_MIN gives
\* INT_MIN, and one in range is cut off toward zero; a field that is no
\* number is left alone, and a boolean field whose value is no boolean
\* keeps FALSE.
C14_SaturatingConversion ==
  Projected =>
    /\ \A f \in IntFields :
         LET v == getProperty(sappConfig, f)
             n == s_app_desc[f]
         IN /\ INT_MIN <= n /\ n <= INT_MAX
            /\ ~isNumber(v) => n = 0
            /\ (isNumber(v) /\ v.k # "finite") => n = IntDefaults[f]
            /\ (isNumber(v) /\ v.k = "finite") =>
                 /\ v.h > 2 * INT_MAX => n = INT_MAX
                 /\ v.h < 2 * INT_MIN => n = INT_MIN
                 /\ (2 * INT_MIN <= v.h /\ v.h <= 2 * INT_MAX) =>
                      IsTruncation(n, v.h)
    /\ \A g \in BoolFields :
         LET w == getProperty(sappConfig, g)
         IN s_app_desc[g] = (isBool(w) /\ w.b)

\* the window is created from a clipboard_size of NaN and a high_dpi of 2
C14_Witness ==
  /\ Projected /\ windowCreated
  /\ getProperty(sappConfig, "clipboard_size") = JSNumber("NaN", 0)
  /\ s_app_desc.clipboard_size = 8192
  /\ getProperty(sappConfig, "high_dpi") = JSFinite(2)
  /\ ~s_app_desc.high_dpi

(***************************************************************************)
(* Properties of the overlay statistics.                                   *)
(***************************************************************************)
DisplayedStats ==
  <<s_fps, s_react_avg_ms_display, s_react_max_ms_display,
    s_imgui_avg_ms_display>>
\* the statistics accumulated by the ticks so far
AccumulatedStats == <<s_react_avg_ms, s_react_max_ms, s_imgui_avg_ms>>
\* the displayed metrics after the step are those accumulated before it
StatsShown ==
  <<s_react_avg_ms_display', s_react_max_ms_display',
    s_imgui_avg_ms_display'>> = AccumulatedStats

\* what a tick does to the displayed numbers when a refresh is due (due)
\* or not
StatsStep(due) ==
  IF due
  THEN StatsShown /\ s_last_fps_time' = now' /\ s_fps' \in FrameRates
  ELSE /\ DisplayedStats' = DisplayedStats
       /\ s_last_fps_time' = (IF s_started THEN s_last_fps_time ELSE now')

\* C15 as stated: the displayed numbers are refreshed in the ticks in which
\* at least one second has passed since the last refresh.
C15_RefreshAtOneSecond ==
  [][StatsStep(s_started /\ now' - s_last_fps_time >= OneSecond)]_vars

\* C15 as the code has it: the displayed FPS and metrics change only in a
\* tick in which more than one second has passed since the last refresh,
\* the first tick counting as a refresh time and refreshing nothing; in
\* such a tick they take the accumulated values and the time of the last
\* refresh becomes the tick's; in every other tick they stay as they are.
C15_RefreshAfterMoreThanOneSecond ==
  [][StatsStep(s_started /\ now' - s_last_fps_time > OneSecond)]_vars

\* a refresh has shown metrics the ticks before it accumulated
C15_Witness ==
  /\ s_started /\ s_last_fps_time > s_start_time
  /\ s_fps \in FrameRates
  /\ s_react_avg_ms_display = 1
  /\ s_imgui_avg_ms_display = 1


\* the fields of sappConfig that hold a value populate_sapp_desc_from_config
\* accepts
Accepted(cfg, f) ==
  /\ hasProperty(cfg, f)
  /\ IF f \in IntFields THEN isNumber(getProperty(cfg, f))
     ELSE IF f \in BoolFields THEN isBool(getProperty(cfg, f))
     ELSE isString(getProperty(cfg, f))

\* C21: whatever sappConfig holds (an object whose fields hold values of
\* any type, or a value that is no object), the projection completes
\* without raising an error: once populate_sapp_desc_from_config has been
\* entered the descriptor is stored, its four callbacks are registered,
\* and every field that is absent or of the wrong type keeps its default.
C21_ProjectionNeverFails ==
  pc # "b_populate" =>
    /\ projections = 1
    /\ s_app_desc.init_cb = "app_init" /\ s_app_desc.frame_cb = "app_frame"
    /\ s_app_desc.cleanup_cb = "app_cleanup"
    /\ s_app_desc.event_cb = "app_event"
    /\ isObject(sappConfig) =>
         \A f \in IntFields \cup BoolFields :
           ~Accepted(sappConfig, f) => s_app_desc[f] = BaseDesc[f]
    /\ (isObject(sappConfig) /\ ~Accepted(sappConfig, "title")) =>
         s_app_desc.window_title = DefaultTitle


\* position i is a script error raised by peek, run or the drain of the
\* loop, before on_frame was reached
LoopErrorAt(i) ==
  /\ i > 1 /\ trace[i].op = "throw"
  /\ trace[i - 1].op \in {"peek", "run", "drainMicrotasks"}
  /\ \A j \in 1..i : trace[j].op \notin {"on_frame", "on_frame:missing"}
LoopThrew == cb = "frame" /\ \E i \in 1..Len(trace) : LoopErrorAt(i)

\* after an error in the loop only the log line and the native steps follow
C22_NoScriptWorkAfterError ==
  cb = "frame" =>
    \A i \in 1..Len(trace) :
      LoopErrorAt(i) =>
        /\ pc \in {"f_catch", "f_ret"}
        /\ ~Has(trace, "on_frame")
        /\ \A j \in (i + 1)..Len(trace) :
             trace[j].op \in {"slog_func"} \cup RenderOps

\* the steps of the tick after the error leave the microtask queue and the
\* task queue as the error left them
C22_PendingWorkKept ==
  LoopThrew => (micro' = micro /\ Settled(tasks') = Settled(tasks))

\* C22: when peek, run or the drain after a run raises a script error in
\* the loop of a tick, the script work of the tick is over: no task is
\* run, on_frame is not called and no drain is made after the error; the
\* tick logs, does its native steps and returns, and the microtasks and
\* tasks the error left pending stay pending when it returns.
C22_LoopErrorAbandonsTick ==
  /\ []C22_NoScriptWorkAfterError
  /\ [][C22_PendingWorkKept]_vars

\* a tick that returns after an error in its loop with microtasks pending
\* and a task still due
C22_Witness ==
  /\ LoopThrew /\ pc = "f_ret" /\ Has(trace, "sg_commit")
  /\ micro
  /\ tasks # <<>> /\ tasks[1].due <= curTimeMs


\* on_init has not returned yet: the bootstrap, and the init callback up to
\* and including its call of on_init
BeforeOnInitReturns == phase = "Boot" \/ pc \in {"init", "i_call"}

\* no drain is logged by the bootstrap, and a drain logged by the init
\* callback comes after its on_init entry
C23_NoDrainBeforeOnInit ==
  /\ phase = "Boot" => ~Has(trace, "drainMicrotasks")
  /\ cb = "init" =>
       \A i \in 1..Len(trace) :
         trace[i].op = "drainMicrotasks" =>
           /\ onInitCalls = 1
           /\ \E j \in 1..(i - 1) : trace[j].op = "on_init"

\* microtasks pending before on_init has returned are still pending after
\* the step
C23_MicrotasksKept == (BeforeOnInitReturns /\ micro) => micro'

\* C23: the bootstrap drains no microtasks, neither after the first run
\* call nor after the evaluation of a unit; the first drain is the one of
\* the init callback, after on_init has returned, so that microtasks
\* queued while the units were evaluated are pending until then.
C23_FirstDrainAfterOnInit ==
  /\ []C23_NoDrainBeforeOnInit
  /\ [][C23_MicrotasksKept]_vars

\* the init callback is about to call on_init, and the microtasks the
\* units queued during the bootstrap are pending
C23_Witness ==
  /\ cb = "init" /\ pc = "i_call" /\ onInitCalls = 0 /\ micro
  /\ ~Has(trace, "drainMicrotasks")


=============================================================================
